---- MODULE Spec2Model ----
(***************************************************************************)
(* permissions-gen: one policy document is compiled into three artifacts   *)
(* (a permission set spliced into a host file, a regenerated rule file, a  *)
(* section map spliced into a second host file).                           *)
(*                                                                         *)
(* A Go string is a sequence of symbols.  A symbol is one byte the code    *)
(* looks at (quote, backslash, brace, bracket, colon, comma, space,        *)
(* newline) or a run of bytes it never looks inside (a word such as        *)
(* "permission" or "allow").  Positions are Go's: 0-based.                 *)
(***************************************************************************)
EXTENDS Integers, Sequences, FiniteSets, TLC

VARIABLES
  pc,      \* position of the run: "idle", "claude", "codex", "opencode", "done", "failed"
  cfg,     \* the policy document that loadConfig decoded
  disk,    \* the targets on disk: file contents or Absent, and whether the rule directory exists
  events,  \* what the current run did to the targets, in order
  runs,    \* number of runs started
  first,   \* the writes of the first run (kept for comparison with the second)
  in,      \* inputs of the pure function under check
  out      \* its results, filled in by the function's action

vars == <<pc, cfg, disk, events, runs, first, in, out>>

----------------------------------------------------------------------------
(* Symbols and the string library calls the code makes.                    *)

NL == "\n"
QUOTE == "\""
BSLASH == "\\"
SP == " "

Whitespace == {SP, NL, "\t", "\r"}

startMarker == <<"{", "{", "/* PERMISSIONS:START */", "}", "}">>
endMarker == <<"{", "{", "/* PERMISSIONS:END */", "}", "}">>
bashSentinel == <<"__BASH__">>

At(s, i) == s[i + 1]
Slice(s, lo, hi) == SubSeq(s, lo + 1, hi)
SliceFrom(s, lo) == SubSeq(s, lo + 1, Len(s))

OccursAt(s, sub, i) ==
  /\ i >= 0
  /\ i + Len(sub) <= Len(s)
  /\ SubSeq(s, i + 1, i + Len(sub)) = sub

Index(s, sub) ==
  LET hits == {i \in 0..(Len(s) - Len(sub)) : OccursAt(s, sub, i)}
  IN IF hits = {} THEN -1 ELSE CHOOSE i \in hits : \A j \in hits : i <= j

LastIndex(s, sub) ==
  LET hits == {i \in 0..(Len(s) - Len(sub)) : OccursAt(s, sub, i)}
  IN IF hits = {} THEN -1 ELSE CHOOSE i \in hits : \A j \in hits : i >= j

RECURSIVE TrimLeft(_)
TrimLeft(s) ==
  IF s # <<>> /\ Head(s) \in Whitespace THEN TrimLeft(Tail(s)) ELSE s

RECURSIVE TrimRight(_)
TrimRight(s) ==
  IF s # <<>> /\ s[Len(s)] \in Whitespace
  THEN TrimRight(SubSeq(s, 1, Len(s) - 1))
  ELSE s

TrimSpace(s) == TrimRight(TrimLeft(s))

RECURSIVE Split(_, _)
Split(s, sep) ==
  LET i == Index(s, sep)
  IN IF i = -1
     THEN <<s>>
     ELSE <<Slice(s, 0, i)>> \o Split(SliceFrom(s, i + Len(sep)), sep)

RECURSIVE Join(_, _)
Join(elems, sep) ==
  IF elems = <<>> THEN <<>>
  ELSE IF Len(elems) = 1 THEN elems[1]
  ELSE elems[1] \o sep \o Join(Tail(elems), sep)

Contains(list, item) == \E i \in 1..Len(list) : list[i] = item

----------------------------------------------------------------------------
(* json_scan.go: the structural scanner.  A result is a record whose err   *)
(* field is "" on success and names the failure otherwise.                 *)

\* The loops below visit every position; a position whose symbol no case
\* of the loop's switch names changes nothing, so the loop is taken from
\* one named symbol to the next.
NextIn(contents, i, symbols) ==
  LET hits == {j \in i..(Len(contents) - 1) : At(contents, j) \in symbols}
  IN IF hits = {} THEN Len(contents) ELSE CHOOSE j \in hits : \A k \in hits : j <= k

\* scanString's loop, except that a backslash escapes nothing
scanStringNoEscapes(contents, start, i, escaped) ==
  LET j == NextIn(contents, i, {QUOTE})
  IN IF j >= Len(contents)
     THEN [err |-> "unterminated string", token |-> <<>>, end |-> 0]
     ELSE [err |-> "", token |-> Slice(contents, start + 1, j), end |-> j]

RECURSIVE scanStringLoop(_, _, _, _)
scanStringLoop(contents, start, i, escaped) ==
  IF i >= Len(contents)
  THEN [err |-> "unterminated string", token |-> <<>>, end |-> 0]
  ELSE IF escaped THEN scanStringLoop(contents, start, i + 1, FALSE)
  ELSE LET j == NextIn(contents, i, {BSLASH, QUOTE})
       IN IF j >= Len(contents)
          THEN [err |-> "unterminated string", token |-> <<>>, end |-> 0]
          ELSE IF At(contents, j) = BSLASH
          THEN scanStringLoop(contents, start, j + 1, TRUE)
          ELSE [err |-> "", token |-> Slice(contents, start + 1, j), end |-> j]

scanString(contents, start) ==
  IF At(contents, start) # QUOTE
  THEN [err |-> "expected string", token |-> <<>>, end |-> 0]
  ELSE scanStringLoop(contents, start, start + 1, FALSE)

skipSpaces(contents, start) ==
  LET rest == {j \in start..(Len(contents) - 1) :
                 At(contents, j) \notin {SP, NL, "\r", "\t"}}
  IN IF rest = {} THEN Len(contents) ELSE CHOOSE j \in rest : \A k \in rest : j <= k

\* findMatchingDelimiter's loop, except that a string literal is not skipped
RECURSIVE findMatchingDelimiterNoStrings(_, _, _, _, _)
findMatchingDelimiterNoStrings(contents, from, depth, open, close) ==
  LET i == NextIn(contents, from, {open, close})
  IN IF i >= Len(contents) THEN [err |-> "unterminated", end |-> 0]
     ELSE IF At(contents, i) = open
     THEN findMatchingDelimiterNoStrings(contents, i + 1, depth + 1, open, close)
     ELSE IF depth - 1 = 0 THEN [err |-> "", end |-> i]
     ELSE findMatchingDelimiterNoStrings(contents, i + 1, depth - 1, open, close)

RECURSIVE findMatchingDelimiterLoop(_, _, _, _, _)
findMatchingDelimiterLoop(contents, from, depth, open, close) ==
  LET i == NextIn(contents, from, {QUOTE, open, close})
  IN IF i >= Len(contents) THEN [err |-> "unterminated", end |-> 0]
     ELSE IF At(contents, i) = QUOTE
     THEN LET s == scanString(contents, i)
          IN IF s.err # "" THEN [err |-> s.err, end |-> 0]
             ELSE findMatchingDelimiterLoop(contents, s.end + 1, depth, open, close)
     ELSE IF At(contents, i) = open
     THEN findMatchingDelimiterLoop(contents, i + 1, depth + 1, open, close)
     ELSE IF depth - 1 = 0 THEN [err |-> "", end |-> i]
     ELSE findMatchingDelimiterLoop(contents, i + 1, depth - 1, open, close)

findMatchingDelimiter(contents, start, open, close) ==
  IF At(contents, start) # open THEN [err |-> "expected start", end |-> 0]
  ELSE findMatchingDelimiterLoop(contents, start, 0, open, close)

findMatchingBrace(contents, start) == findMatchingDelimiter(contents, start, "{", "}")

NoKey(e) == [err |-> e, keyPos |-> 0, valueStart |-> 0]

\* findKeyInRange's loop, except that the key is taken at any depth
RECURSIVE findKeyAtAnyDepth(_, _, _, _, _)
findKeyAtAnyDepth(contents, from, end, depth, key) ==
  LET i == NextIn(contents, from, {QUOTE})
  IN IF i > end THEN NoKey("key not found")
     ELSE LET s == scanString(contents, i)
          IN IF s.err # "" THEN NoKey(s.err)
             ELSE IF s.token = key
             THEN LET j == skipSpaces(contents, s.end + 1)
                  IN IF j >= Len(contents) \/ At(contents, j) # ":"
                     THEN NoKey("key missing colon")
                     ELSE LET v == skipSpaces(contents, j + 1)
                          IN IF v >= Len(contents) THEN NoKey("missing value")
                             ELSE [err |-> "", keyPos |-> i, valueStart |-> v]
             ELSE findKeyAtAnyDepth(contents, s.end + 1, end, depth, key)

RECURSIVE findKeyInRangeLoop(_, _, _, _, _)
findKeyInRangeLoop(contents, from, end, depth, key) ==
  LET i == NextIn(contents, from, {QUOTE, "{", "}"})
  IN IF i > end THEN NoKey("key not found")
     ELSE IF At(contents, i) = QUOTE
     THEN LET s == scanString(contents, i)
          IN IF s.err # "" THEN NoKey(s.err)
             ELSE IF depth = 1 /\ s.token = key
             THEN LET j == skipSpaces(contents, s.end + 1)
                  IN IF j >= Len(contents) \/ At(contents, j) # ":"
                     THEN NoKey("key missing colon")
                     ELSE LET v == skipSpaces(contents, j + 1)
                          IN IF v >= Len(contents) THEN NoKey("missing value")
                             ELSE [err |-> "", keyPos |-> i, valueStart |-> v]
             ELSE findKeyInRangeLoop(contents, s.end + 1, end, depth, key)
     ELSE IF At(contents, i) = "{"
     THEN findKeyInRangeLoop(contents, i + 1, end, depth + 1, key)
     ELSE findKeyInRangeLoop(contents, i + 1, end, depth - 1, key)

findKeyInRange(contents, start, end, key) ==
  findKeyInRangeLoop(contents, start, end, 0, key)

NoObject(e) == [err |-> e, keyPos |-> 0, valueStart |-> 0, valueEnd |-> 0]

findObjectForKey(contents, key) ==
  LET k == findKeyInRange(contents, 0, Len(contents) - 1, key)
  IN IF k.err # "" THEN NoObject(k.err)
     ELSE IF At(contents, k.valueStart) # "{" THEN NoObject("value must be object")
     ELSE LET m == findMatchingBrace(contents, k.valueStart)
          IN IF m.err # "" THEN NoObject(m.err)
             ELSE [err |-> "", keyPos |-> k.keyPos, valueStart |-> k.valueStart,
                   valueEnd |-> m.end]

----------------------------------------------------------------------------
(* main.go: the text splicer.  A splice result is [err, text]; err = ""    *)
(* means success.                                                          *)

Failed(e) == [err |-> e, text |-> <<>>]
Done(t) == [err |-> "", text |-> t]

lineIndent(contents, markerPos) ==
  LET lineStart == LastIndex(Slice(contents, 0, markerPos), <<NL>>) + 1
      indent == Slice(contents, lineStart, markerPos)
  IN IF TrimSpace(indent) # <<>>
     THEN [err |-> "marker must be on its own line", indent |-> <<>>]
     ELSE [err |-> "", indent |-> indent]

lineIndentForPos(contents, pos) ==
  LET lineStart == LastIndex(Slice(contents, 0, pos), <<NL>>) + 1
  IN Slice(contents, lineStart, pos)

\* the loop of indentMultilineValue: every line but the first gets the indent
indentAfterFirst(lines, indent) ==
  Join([i \in 1..Len(lines) |-> IF i = 1 THEN lines[i] ELSE indent \o lines[i]],
       <<NL>>)

indentMultilineValue(value, indent) == indentAfterFirst(Split(value, <<NL>>), indent)

\* the block replaceBlockWithLines builds: the start marker, the lines each
\* behind the indent, the end marker behind the indent
markerBlock(indent, lines) ==
  startMarker \o <<NL>> \o Join([i \in 1..Len(lines) |-> indent \o lines[i]], <<NL>>)
    \o <<NL>> \o indent \o endMarker

\* replaceBlockWithLines once lineIndent has returned li; the tail is taken
\* from the end marker, not from behind it
spliceKeepingEndMarker(contents, start, end, lines, li) ==
  IF li.err # "" THEN Failed(li.err)
  ELSE Done(Slice(contents, 0, start) \o markerBlock(li.indent, lines)
              \o SliceFrom(contents, end))

\* replaceBlockWithLines once lineIndent has returned li
spliceBlock(contents, start, end, lines, li) ==
  IF li.err # "" THEN Failed(li.err)
  ELSE Done(Slice(contents, 0, start) \o markerBlock(li.indent, lines)
              \o SliceFrom(contents, end + Len(endMarker)))

replaceBlockWithLines(contents, start, end, lines) ==
  spliceBlock(contents, start, end, lines, lineIndent(contents, start))

cutPrefix(line) ==
  IF OccursAt(line, <<SP, SP>>, 0) THEN SliceFrom(line, 2) ELSE line

\* innerJSONLines once the text is split: lines[1 : len(lines)-1], each
\* without its two leading spaces
innerLines(lines) ==
  IF Len(lines) < 2 THEN [err |-> "unexpected json: too few lines", lines |-> <<>>]
  ELSE [err |-> "", lines |-> [i \in 1..(Len(lines) - 2) |-> cutPrefix(lines[i + 1])]]

innerJSONLines(data) == innerLines(Split(data, <<NL>>))

replaceOpencodePermissionsJSON(contents, permissionsJSON) ==
  LET o == findObjectForKey(contents, <<"permission">>)
      indent == lineIndentForPos(contents, o.keyPos)
      replacement == indentMultilineValue(permissionsJSON, indent)
  IN IF o.err # "" THEN Failed(o.err)
     ELSE Done(Slice(contents, 0, o.valueStart) \o replacement
                 \o SliceFrom(contents, o.valueEnd + 1))

replaceOpencodePermissions(contents, permissionsJSON, lines) ==
  LET start == Index(contents, startMarker)
      end == Index(contents, endMarker)
  IN IF start = -1 \/ end = -1 \/ start >= end
     THEN replaceOpencodePermissionsJSON(contents, permissionsJSON)
     ELSE replaceBlockWithLines(contents, start, end, lines)

----------------------------------------------------------------------------
(* main.go: the policy normalizer.  A nil slice and an empty slice are     *)
(* both <<>>; ensureSlice, which tells them apart for the JSON encoder,    *)
(* is the identity here and every list the encoder sees is non-nil.        *)

EmptyAcc == [out |-> <<>>, seen |-> {}]

appendUnique(acc, item) ==
  IF item = <<>> THEN acc
  ELSE IF item \in acc.seen THEN acc
  ELSE [out |-> Append(acc.out, item), seen |-> acc.seen \cup {item}]

RECURSIVE appendAllUnique(_, _)
appendAllUnique(acc, list) ==
  IF list = <<>> THEN acc
  ELSE appendAllUnique(appendUnique(acc, Head(list)), Tail(list))

RECURSIVE normalizeUniqueLoop(_, _)
normalizeUniqueLoop(acc, values) ==
  IF values = <<>> THEN acc
  ELSE LET trimmed == TrimSpace(Head(values))
       IN IF trimmed = <<>> THEN normalizeUniqueLoop(acc, Tail(values))
          ELSE normalizeUniqueLoop(appendUnique(acc, trimmed), Tail(values))

RECURSIVE normalizePlainLoop(_, _)
normalizePlainLoop(acc, values) ==
  IF values = <<>> THEN acc
  ELSE LET trimmed == TrimSpace(Head(values))
       IN IF trimmed = <<>> THEN normalizePlainLoop(acc, Tail(values))
          ELSE normalizePlainLoop(Append(acc, trimmed), Tail(values))

\* normalizeList, except that no entry is trimmed
normalizeListUntrimmed(values, unique) == appendAllUnique(EmptyAcc, values).out

normalizeList(values, unique) ==
  IF unique THEN normalizeUniqueLoop(EmptyAcc, values).out
  ELSE normalizePlainLoop(<<>>, values)

ensureSlice(values) == values

toBashPatterns(values) ==
  LET normalized == normalizeList(values, FALSE)
  IN [i \in 1..Len(normalized) |-> <<"Bash(">> \o normalized[i] \o <<":*)">>]

\* mergeUnique, except that nothing is looked up in seen
mergeKeepingDuplicates(a, b) == a \o b

mergeUnique(a, b) == appendAllUnique(appendAllUnique(EmptyAcc, a), b).out

RECURSIVE expandSentinelLoop(_, _, _)
expandSentinelLoop(acc, normalized, bashPatterns) ==
  IF normalized = <<>> THEN acc
  ELSE IF Head(normalized) = bashSentinel
  THEN expandSentinelLoop(appendAllUnique(acc, bashPatterns), Tail(normalized),
                          bashPatterns)
  ELSE expandSentinelLoop(appendUnique(acc, Head(normalized)), Tail(normalized),
                          bashPatterns)

expandWithBash(values, bashValues) ==
  LET normalized == normalizeList(values, FALSE)
      bashPatterns == toBashPatterns(normalizeList(bashValues, FALSE))
  IN IF Len(bashPatterns) = 0 THEN ensureSlice(normalized)
     ELSE IF ~Contains(normalized, bashSentinel)
     THEN mergeUnique(normalized, bashPatterns)
     ELSE expandSentinelLoop(EmptyAcc, normalized, bashPatterns).out

buildClaudePermissions(c) ==
  [Allow |-> expandWithBash(c.Claude.Allow, c.Bash.Allow),
   Ask |-> ensureSlice(expandWithBash(c.Claude.Ask, c.Bash.Ask)),
   Deny |-> ensureSlice(expandWithBash(c.Claude.Deny, c.Bash.Deny)),
   AdditionalDirectories |->
     ensureSlice(normalizeList(c.Claude.AdditionalDirectories, FALSE))]

----------------------------------------------------------------------------
(* main.go: rendering.  jsonString and marshalIndent are encoding/json as   *)
(* the code calls it: a string is quoted with quote, backslash and the     *)
(* control symbols escaped; MarshalIndent(perm, "", "  ") writes the four  *)
(* fields in declaration order, an empty array as [] and any other with    *)
(* one element per line.                                                   *)

RECURSIVE escapeJSON(_)
escapeJSON(value) ==
  IF value = <<>> THEN <<>>
  ELSE LET c == Head(value)
           e == IF c = QUOTE THEN <<BSLASH, QUOTE>>
                ELSE IF c = BSLASH THEN <<BSLASH, BSLASH>>
                ELSE IF c = NL THEN <<BSLASH, "n">>
                ELSE IF c = "\t" THEN <<BSLASH, "t">>
                ELSE IF c = "\r" THEN <<BSLASH, "r">>
                ELSE <<c>>
       IN e \o escapeJSON(Tail(value))

jsonString(value) == <<QUOTE>> \o escapeJSON(value) \o <<QUOTE>>

marshalArray(list) ==
  IF Len(list) = 0 THEN <<"[", "]">>
  ELSE <<"[", NL>>
         \o Join([i \in 1..Len(list) |-> <<SP, SP, SP, SP>> \o jsonString(list[i])],
                 <<",", NL>>)
         \o <<NL, SP, SP, "]">>

marshalField(name, list) == <<SP, SP>> \o jsonString(<<name>>) \o <<":", SP>> \o marshalArray(list)

marshalIndent(perm) ==
  <<"{", NL>>
    \o Join(<<marshalField("allow", perm.Allow),
              marshalField("ask", perm.Ask),
              marshalField("deny", perm.Deny),
              marshalField("additionalDirectories", perm.AdditionalDirectories)>>,
            <<",", NL>>)
    \o <<NL, "}">>

permissionsLines(perm) == innerJSONLines(marshalIndent(perm))

replaceWithMarkers(contents, perm, start, end) ==
  LET l == permissionsLines(perm)
  IN IF l.err # "" THEN Failed(l.err)
     ELSE replaceBlockWithLines(contents, start, end, l.lines)

replacePermissionsJSON(contents, perm) ==
  LET o == findObjectForKey(contents, <<"permissions">>)
      data == marshalIndent(perm)
      indent == lineIndentForPos(contents, o.keyPos)
      replacement == indentMultilineValue(data, indent)
  IN IF o.err # "" THEN Failed(o.err)
     ELSE Done(Slice(contents, 0, o.valueStart) \o replacement
                 \o SliceFrom(contents, o.valueEnd + 1))

\* replacePermissionsBlock, except that a text with no splice point is
\* returned as it is
replacePermissionsBlockUnlocated(contents, perm) ==
  LET start == Index(contents, startMarker)
      end == Index(contents, endMarker)
  IN IF start # -1 /\ end # -1 /\ start < end
     THEN replaceWithMarkers(contents, perm, start, end)
     ELSE IF findObjectForKey(contents, <<"permissions">>).err # "" THEN Done(contents)
     ELSE replacePermissionsJSON(contents, perm)

\* replacePermissionsBlock, except that markers in the wrong order are an
\* error
replacePermissionsBlockOrdered(contents, perm) ==
  LET start == Index(contents, startMarker)
      end == Index(contents, endMarker)
  IN IF start # -1 /\ end # -1 /\ start < end
     THEN replaceWithMarkers(contents, perm, start, end)
     ELSE IF start # -1 /\ end # -1 THEN Failed("markers in invalid order")
     ELSE replacePermissionsJSON(contents, perm)

replacePermissionsBlock(contents, perm) ==
  LET start == Index(contents, startMarker)
      end == Index(contents, endMarker)
  IN IF start # -1 /\ end # -1 /\ start < end
     THEN replaceWithMarkers(contents, perm, start, end)
     ELSE replacePermissionsJSON(contents, perm)

----------------------------------------------------------------------------
(* main.go: the rule grouper and the rule-language renderer.  A map is a   *)
(* function on its key set; US is the unit separator byte 0x1f.             *)

US == "<US>"

MapPut(m, k, v) == [x \in (DOMAIN m) \cup {k} |-> IF x = k THEN v ELSE m[x]]

RECURSIVE FieldsLoop(_, _, _)
FieldsLoop(s, cur, acc) ==
  IF s = <<>> THEN (IF cur = <<>> THEN acc ELSE Append(acc, cur))
  ELSE IF Head(s) \in Whitespace
  THEN FieldsLoop(Tail(s), <<>>, IF cur = <<>> THEN acc ELSE Append(acc, cur))
  ELSE FieldsLoop(Tail(s), Append(cur, Head(s)), acc)

Fields(s) == FieldsLoop(s, <<>>, <<>>)

EmptyGrouped == [order |-> <<>>, groups |-> <<>>, singles |-> <<>>]

groupOne(gc, cmd) ==
  LET tokens == Fields(cmd)
      n == Len(tokens)
  IN IF n = 0 THEN gc
     ELSE IF n = 1
     THEN LET key == <<"single|">> \o tokens[1]
          IN IF key \in DOMAIN gc.singles THEN gc
             ELSE [gc EXCEPT !.singles = MapPut(gc.singles, key, tokens),
                             !.order = Append(gc.order, key)]
     ELSE LET prefix == Join(SubSeq(tokens, 1, n - 1), <<US>>)
              key == <<"group|", ToString(n), "|">> \o prefix
              last == tokens[n]
              g0 == IF key \in DOMAIN gc.groups THEN gc
                    ELSE [gc EXCEPT
                            !.groups = MapPut(gc.groups, key,
                                              [prefix |-> SubSeq(tokens, 1, n - 1),
                                               alts |-> <<>>, seen |-> {}]),
                            !.order = Append(gc.order, key)]
              grp == g0.groups[key]
          IN IF last \in grp.seen THEN g0
             ELSE [g0 EXCEPT !.groups =
                     MapPut(g0.groups, key,
                            [grp EXCEPT !.seen = grp.seen \cup {last},
                                        !.alts = Append(grp.alts, last)])]

RECURSIVE groupCommandsLoop(_, _)
groupCommandsLoop(gc, commands) ==
  IF commands = <<>> THEN gc
  ELSE groupCommandsLoop(groupOne(gc, Head(commands)), Tail(commands))

groupCommands(commands) == groupCommandsLoop(EmptyGrouped, commands)

\* ruleForKey, except that a group of one alternative is not collapsed
ruleForKeyUncollapsed(gc, key, decision) ==
  IF key \in DOMAIN gc.singles
  THEN <<[PatternPrefix |-> gc.singles[key], PatternAlts |-> <<>>,
          Decision |-> decision, Match |-> Join(gc.singles[key], <<SP>>)]>>
  ELSE IF key \notin DOMAIN gc.groups THEN <<>>
  ELSE LET group == gc.groups[key]
       IN <<[PatternPrefix |-> group.prefix, PatternAlts |-> group.alts,
             Decision |-> decision,
             Match |-> Join(Append(group.prefix, group.alts[1]), <<SP>>)]>>

\* ruleForKey, except that the match text of a rule with alternatives names
\* all of them
ruleForKeyAllAlternatives(gc, key, decision) ==
  IF key \in DOMAIN gc.singles
  THEN <<[PatternPrefix |-> gc.singles[key], PatternAlts |-> <<>>,
          Decision |-> decision, Match |-> Join(gc.singles[key], <<SP>>)]>>
  ELSE IF key \notin DOMAIN gc.groups THEN <<>>
  ELSE LET group == gc.groups[key]
       IN IF Len(group.alts) = 1
          THEN <<[PatternPrefix |-> Append(group.prefix, group.alts[1]),
                  PatternAlts |-> <<>>, Decision |-> decision,
                  Match |-> Join(Append(group.prefix, group.alts[1]), <<SP>>)]>>
          ELSE <<[PatternPrefix |-> group.prefix, PatternAlts |-> group.alts,
                  Decision |-> decision,
                  Match |-> Join(group.prefix \o group.alts, <<SP>>)]>>

ruleForKey(gc, key, decision) ==
  IF key \in DOMAIN gc.singles
  THEN <<[PatternPrefix |-> gc.singles[key], PatternAlts |-> <<>>,
          Decision |-> decision, Match |-> Join(gc.singles[key], <<SP>>)]>>
  ELSE IF key \notin DOMAIN gc.groups THEN <<>>
  ELSE LET group == gc.groups[key]
           full == Append(group.prefix, group.alts[1])
       IN IF Len(group.alts) = 1
          THEN <<[PatternPrefix |-> full, PatternAlts |-> <<>>,
                  Decision |-> decision, Match |-> Join(full, <<SP>>)]>>
          ELSE <<[PatternPrefix |-> group.prefix, PatternAlts |-> group.alts,
                  Decision |-> decision, Match |-> Join(full, <<SP>>)]>>

RECURSIVE rulesForKeys(_, _, _)
rulesForKeys(gc, keys, decision) ==
  IF keys = <<>> THEN <<>>
  ELSE ruleForKey(gc, Head(keys), decision) \o rulesForKeys(gc, Tail(keys), decision)

buildCodexDecisionRules(decision, commands) ==
  LET gc == groupCommands(commands)
  IN rulesForKeys(gc, gc.order, decision)

\* the variant that drops from a tier the commands of the tiers before it
buildCodexRulesAcrossTiers(c) ==
  LET without(list, others) ==
        SelectSeq(list, LAMBDA v : \A i \in 1..Len(others) : others[i] # v)
  IN buildCodexDecisionRules("allow", c.Bash.Allow)
       \o buildCodexDecisionRules("prompt", without(c.Bash.Ask, c.Bash.Allow))
       \o buildCodexDecisionRules("forbidden",
                                  without(c.Bash.Deny, c.Bash.Allow \o c.Bash.Ask))

buildCodexRules(c) ==
  buildCodexDecisionRules("allow", c.Bash.Allow)
    \o buildCodexDecisionRules("prompt", c.Bash.Ask)
    \o buildCodexDecisionRules("forbidden", c.Bash.Deny)

goQuote(value) == <<QUOTE>> \o escapeJSON(value) \o <<QUOTE>>

joinQuoted(tokens) ==
  Join([i \in 1..Len(tokens) |-> goQuote(tokens[i])], <<",", SP>>)

RECURSIVE Concat(_)
Concat(parts) == IF parts = <<>> THEN <<>> ELSE Head(parts) \o Concat(Tail(parts))

renderCodexPattern(rule) ==
  IF Len(rule.PatternAlts) = 0
  THEN <<SP, SP, "pattern", SP, "=", SP, "[">> \o joinQuoted(rule.PatternPrefix)
         \o <<"]", ",", NL>>
  ELSE <<SP, SP, "pattern", SP, "=", SP, "[">> \o joinQuoted(rule.PatternPrefix)
         \o <<",", SP, "[", NL>>
         \o Concat([i \in 1..Len(rule.PatternAlts) |->
                      <<SP, SP, SP, SP>> \o goQuote(rule.PatternAlts[i]) \o <<",", NL>>])
         \o <<SP, SP, "]", "]", ",", NL>>

renderCodexDecision(decision) ==
  IF decision = "" \/ decision = "allow"
  THEN <<SP, SP, "decision", SP, "=", SP, QUOTE, "allow", QUOTE, ",", NL>>
  ELSE <<SP, SP, "decision", SP, "=", SP>> \o goQuote(<<decision>>) \o <<",", NL>>

renderCodexMatch(match) ==
  IF TrimSpace(match) = <<>> THEN <<>>
  ELSE <<SP, SP, "match", SP, "=", SP, "[">> \o goQuote(match) \o <<"]", ",", NL>>

renderCodexRules(rules) ==
  <<"# ~/.codex/rules/default.rules", NL,
    "# Generated by tools/permissions-gen. Do not edit by hand.", NL, NL>>
    \o Concat([i \in 1..Len(rules) |->
                 <<"prefix_rule(", NL>>
                   \o renderCodexPattern(rules[i])
                   \o renderCodexDecision(rules[i].Decision)
                   \o renderCodexMatch(rules[i].Match)
                   \o <<")", NL>>
                   \o (IF i < Len(rules) THEN <<NL>> ELSE <<>>)])

----------------------------------------------------------------------------
(* main.go: the section map.  A section is the decoded                     *)
(* opencodeSectionConfig; Others is the inline map, a function on the      *)
(* declared names.  A name is one word; NameOrder lists the names used in  *)
(* ascending byte order, which is the order sort.Strings gives.            *)

NameOrder == <<"apply", "bash", "edit", "webfetch">>

NameRank(n) == CHOOSE i \in 1..Len(NameOrder) : NameOrder[i] = n

\* the variant that sorts the names the other way round
RECURSIVE SortStringsDescending(_)
SortStringsDescending(names) ==
  IF names = {} THEN <<>>
  ELSE LET most == CHOOSE n \in names : \A m \in names : NameRank(m) <= NameRank(n)
       IN <<most>> \o SortStringsDescending(names \ {most})

RECURSIVE SortStrings(_)
SortStrings(names) ==
  IF names = {} THEN <<>>
  ELSE LET least == CHOOSE n \in names : \A m \in names : NameRank(n) <= NameRank(m)
       IN <<least>> \o SortStrings(names \ {least})

containsWildcard(value) == \E i \in 1..Len(value) : value[i] \in {"*", "?"}

RECURSIVE expandOpencodeLoop(_, _)
expandOpencodeLoop(acc, values) ==
  IF values = <<>> THEN acc
  ELSE LET trimmed == TrimSpace(Head(values))
           a1 == appendUnique(acc, trimmed)
       IN IF trimmed = <<>> THEN expandOpencodeLoop(acc, Tail(values))
          ELSE IF ~containsWildcard(trimmed)
          THEN expandOpencodeLoop(appendUnique(a1, trimmed \o <<SP, "*">>), Tail(values))
          ELSE expandOpencodeLoop(a1, Tail(values))

\* the variant that derives no "<pattern> *" entry
expandWithoutVariants(values) == normalizeList(values, TRUE)

expandOpencodePatterns(values) == expandOpencodeLoop(EmptyAcc, values).out

buildOpencodeDecisionRules(decision, values, expand) ==
  LET patterns == IF expand THEN expandOpencodePatterns(values)
                  ELSE normalizeList(values, TRUE)
  IN [i \in 1..Len(patterns) |-> [Pattern |-> patterns[i], Decision |-> <<decision>>]]

\* buildOpencodeRulesForSection, except that a blank default decision stays
\* blank
buildOpencodeRulesNoFallback(defaultDecision, allow, ask, deny, expand) ==
  <<[Pattern |-> <<"*">>, Decision |-> TrimSpace(defaultDecision)]>>
    \o buildOpencodeDecisionRules("allow", allow, expand)
    \o buildOpencodeDecisionRules("ask", ask, expand)
    \o buildOpencodeDecisionRules("deny", deny, expand)

buildOpencodeRulesForSection(defaultDecision, allow, ask, deny, expand) ==
  LET trimmed == TrimSpace(defaultDecision)
      decision == IF trimmed = <<>> THEN <<"allow">> ELSE trimmed
  IN <<[Pattern |-> <<"*">>, Decision |-> decision]>>
       \o buildOpencodeDecisionRules("allow", allow, expand)
       \o buildOpencodeDecisionRules("ask", ask, expand)
       \o buildOpencodeDecisionRules("deny", deny, expand)

buildOpencodeBashRules(c) ==
  buildOpencodeRulesForSection(c.Opencode.Bash.Default,
                               c.Bash.Allow \o c.Opencode.Bash.Allow,
                               c.Bash.Ask \o c.Opencode.Bash.Ask,
                               c.Bash.Deny \o c.Opencode.Bash.Deny,
                               TRUE)

\* buildOpencodeSectionRules, except that the patterns are expanded
buildOpencodeSectionRulesExpanded(section) ==
  buildOpencodeRulesForSection(section.Default, section.Allow, section.Ask,
                               section.Deny, TRUE)

buildOpencodeSectionRules(section) ==
  buildOpencodeRulesForSection(section.Default, section.Allow, section.Ask,
                               section.Deny, FALSE)

sectionFor(name, section, rules) ==
  IF section.IsScalar
  THEN [Name |-> name, Rules |-> <<>>, Scalar |-> section.Scalar, IsScalar |-> TRUE]
  ELSE [Name |-> name, Rules |-> rules, Scalar |-> <<>>, IsScalar |-> FALSE]

buildOpencodeSections(c) ==
  LET bash == sectionFor("bash", c.Opencode.Bash, buildOpencodeBashRules(c))
      names == SortStrings((DOMAIN c.Opencode.Others) \ {"bash"})
  IN <<bash>>
       \o [i \in 1..Len(names) |->
             sectionFor(names[i], c.Opencode.Others[names[i]],
                        buildOpencodeSectionRules(c.Opencode.Others[names[i]]))]

renderOpencodeSectionJSON(rules) ==
  <<"{", NL>>
    \o Concat([i \in 1..Len(rules) |->
                 <<SP, SP>> \o jsonString(rules[i].Pattern) \o <<":", SP>>
                   \o jsonString(rules[i].Decision)
                   \o (IF i < Len(rules) THEN <<",">> ELSE <<>>) \o <<NL>>])
    \o <<"}">>

renderOpencodePermissionsJSON(sections) ==
  <<"{", NL>>
    \o Concat([i \in 1..Len(sections) |->
                 <<SP, SP>> \o jsonString(<<sections[i].Name>>) \o <<":", SP>>
                   \o (IF sections[i].IsScalar THEN jsonString(sections[i].Scalar)
                       ELSE indentMultilineValue(
                              renderOpencodeSectionJSON(sections[i].Rules), <<SP, SP>>))
                   \o (IF i < Len(sections) THEN <<",">> ELSE <<>>) \o <<NL>>])
    \o <<"}">>

opencodePermissionsLinesFromJSON(permissionsJSON) == innerJSONLines(permissionsJSON)

----------------------------------------------------------------------------
(* Policies.  A policy is the decoded config: the bash-domain lists, the   *)
(* permission-set lists and the section map.                               *)

Section(default, allow) ==
  [Default |-> default, Allow |-> allow, Ask |-> <<>>, Deny |-> <<>>,
   Scalar |-> <<>>, IsScalar |-> FALSE]

ScalarSection(decision) ==
  [Default |-> <<>>, Allow |-> <<>>, Ask |-> <<>>, Deny |-> <<>>,
   Scalar |-> TrimSpace(decision), IsScalar |-> TRUE]

NoOthers == [n \in {} |-> Section(<<>>, <<>>)]

Policy(bashAllow, claudeAllow, bashSection, others) ==
  [Bash |-> [Allow |-> bashAllow, Ask |-> <<>>, Deny |-> <<>>],
   Claude |-> [Allow |-> claudeAllow, Ask |-> <<>>, Deny |-> <<>>,
               AdditionalDirectories |-> <<>>],
   Opencode |-> [Bash |-> bashSection, Others |-> others]]

\* every list empty
PolicyEmpty == Policy(<<>>, <<>>, Section(<<>>, <<>>), NoOthers)

\* one bash command, the sentinel in the permission set, a scalar section
PolicyGit ==
  Policy(<< <<"git">> >>, << <<"Read">>, bashSentinel >>, Section(<<"ask">>, <<>>),
         [n \in {"edit"} |-> ScalarSection(<<"deny">>)])

\* an entry whose text is the end marker literal
PolicyEndMarker ==
  Policy(<<>>, <<endMarker>>, Section(<<>>, <<endMarker>>), NoOthers)

SplicePolicies == {PolicyEmpty, PolicyGit, PolicyEndMarker}

----------------------------------------------------------------------------
(* Host texts: an opening (nothing, an object, an object whose first      *)
(* member is the target key, a line and an indented start marker)          *)
(* followed by at most MaxHostChunks chunks.                               *)

MaxHostChunks == 3

Targets == {"claude", "opencode"}

targetKey(target) == IF target = "claude" THEN <<"permissions">> ELSE <<"permission">>

KeyColon(target) == <<QUOTE>> \o targetKey(target) \o <<QUOTE, ":", SP>>

\* a string literal that holds a closing brace
BraceString == <<QUOTE, "}", QUOTE>>

HostChunks(target) ==
  {startMarker, endMarker, <<NL, SP, SP>>, <<"x">>, <<"{">>, <<"}">>,
   KeyColon(target), BraceString}

HostOpenings(target) ==
  {<<>>, <<"{">>, <<"{", NL, SP, SP>> \o KeyColon(target) \o <<"{">>,
   <<"x", NL, SP, SP>> \o startMarker}

RECURSIVE ChunkTexts(_, _)
ChunkTexts(chunks, n) ==
  IF n = 0 THEN {<<>>}
  ELSE LET shorter == ChunkTexts(chunks, n - 1)
       IN shorter \cup {t \o c : t \in shorter, c \in chunks}

HostTexts(target) ==
  {o \o t : o \in HostOpenings(target), t \in ChunkTexts(HostChunks(target), MaxHostChunks)}

----------------------------------------------------------------------------
(* The splice as each artifact's transform applies it                      *)
(* (writeClaudePermissions, writeOpencodePermissions).                     *)

opencodeJSON(c) == renderOpencodePermissionsJSON(buildOpencodeSections(c))

transform(target, c, contents) ==
  IF target = "claude"
  THEN replacePermissionsBlock(contents, buildClaudePermissions(c))
  ELSE replaceOpencodePermissions(contents, opencodeJSON(c),
                                   opencodePermissionsLinesFromJSON(opencodeJSON(c)).lines)

NotRun == [err |-> "not run", text |-> <<>>]

InitSplice ==
  /\ pc = "splice"
  /\ cfg \in SplicePolicies
  /\ \E target \in Targets :
       \E contents \in HostTexts(target) :
         in = [target |-> target, contents |-> contents]
  /\ out = [phase |-> "input", r1 |-> NotRun, r2 |-> NotRun]
  /\ disk = <<>>
  /\ events = <<>>
  /\ runs = 0
  /\ first = <<>>

SpliceOnce ==
  /\ pc = "splice"
  /\ out.phase = "input"
  /\ out' = [out EXCEPT !.phase = "once", !.r1 = transform(in.target, cfg, in.contents)]
  /\ UNCHANGED <<pc, cfg, disk, events, runs, first, in>>

SpliceAgain ==
  /\ pc = "splice"
  /\ out.phase = "once"
  /\ out.r1.err = ""
  /\ out' = [out EXCEPT !.phase = "twice", !.r2 = transform(in.target, cfg, out.r1.text)]
  /\ UNCHANGED <<pc, cfg, disk, events, runs, first, in>>

NextSplice == SpliceOnce \/ SpliceAgain

SpecSplice == InitSplice /\ [][NextSplice]_vars

----------------------------------------------------------------------------
(* What the claims speak of, stated on the text alone.                     *)

FirstAt(s, sub) ==
  IF \E i \in 0..Len(s) : OccursAt(s, sub, i)
  THEN CHOOSE i \in 0..Len(s) :
         OccursAt(s, sub, i) /\ \A j \in 0..(i - 1) : ~OccursAt(s, sub, j)
  ELSE -1

ValidMarkerPair(contents) ==
  /\ FirstAt(contents, startMarker) # -1
  /\ FirstAt(contents, endMarker) # -1
  /\ FirstAt(contents, startMarker) < FirstAt(contents, endMarker)

\* where the line holding position pos begins
LineStartOf(contents, pos) ==
  CHOOSE j \in 0..pos :
    /\ \A i \in j..(pos - 1) : At(contents, i) # NL
    /\ j = 0 \/ At(contents, j - 1) = NL

\* where the line holding position pos ends (its newline, or the end of the text)
LineEndOf(contents, pos) ==
  CHOOSE j \in pos..Len(contents) :
    /\ \A i \in pos..(j - 1) : At(contents, i) # NL
    /\ j = Len(contents) \/ At(contents, j) = NL

AllWhitespace(s) == \A i \in 1..Len(s) : s[i] \in Whitespace

FragmentJSON(target, c) ==
  IF target = "claude" THEN marshalIndent(buildClaudePermissions(c)) ELSE opencodeJSON(c)

FragmentLines(target, c) ==
  IF target = "claude" THEN permissionsLines(buildClaudePermissions(c)).lines
  ELSE opencodePermissionsLinesFromJSON(opencodeJSON(c)).lines

Spliced == pc = "splice" /\ out.phase # "input"
SplicedTwice == pc = "splice" /\ out.phase = "twice"

----------------------------------------------------------------------------
(* C1: marker strategy idempotence.  Whenever the marker splice of the     *)
(* rendered fragment into a host text succeeds, splicing the same fragment *)
(* into the result yields exactly that result again.                       *)
MarkerIdempotent ==
  (SplicedTwice /\ ValidMarkerPair(in.contents)) => out.r2 = out.r1

(* C2: structural strategy idempotence.  Whenever a host text without a    *)
(* valid marker pair is spliced successfully through the target key's      *)
(* object, the same splice applied to the result yields that result again. *)
StructuralIdempotent ==
  (SplicedTwice /\ ~ValidMarkerPair(in.contents)) => out.r2 = out.r1

\* the fragment's lines, each behind the indentation and ended by a newline
IndentedLines(lines, indent) ==
  Concat([i \in 1..Len(lines) |-> indent \o lines[i] \o <<NL>>])

MarkerSpliced == Spliced /\ ValidMarkerPair(in.contents) /\ out.r1.err = ""

(* C7: marker strategy frame.  The output of a successful marker splice is *)
(* the input's text before the start marker, the start marker, a newline,  *)
(* the fragment's lines each behind the whitespace that preceded the start *)
(* marker on its line, that whitespace again, the end marker, and the      *)
(* input's text after the end marker.                                      *)
MarkerFrame ==
  MarkerSpliced =>
    LET c == in.contents
        s == FirstAt(c, startMarker)
        e == FirstAt(c, endMarker)
        indent == Slice(c, LineStartOf(c, s), s)
    IN /\ AllWhitespace(indent)
       /\ out.r1.text =
            Slice(c, 0, s) \o startMarker \o <<NL>>
              \o IndentedLines(FragmentLines(in.target, cfg), indent)
              \o indent \o endMarker \o SliceFrom(c, e + Len(endMarker))

\* a successful marker splice with indentation, old text between the
\* markers and text after the end marker
MarkerFrameWitness ==
  /\ MarkerSpliced
  /\ LineStartOf(in.contents, FirstAt(in.contents, startMarker))
       < FirstAt(in.contents, startMarker)
  /\ FirstAt(in.contents, startMarker) + Len(startMarker)
       < FirstAt(in.contents, endMarker)
  /\ FirstAt(in.contents, endMarker) + Len(endMarker) < Len(in.contents)

(* C9: the start marker's line holds nothing but leading whitespace and    *)
(* the marker; a valid marker pair whose start-marker line holds anything  *)
(* else, before or after the marker, fails to splice with the              *)
(* marker-not-alone error.                                                 *)
StartMarkerAlone(contents) ==
  LET s == FirstAt(contents, startMarker)
  IN /\ AllWhitespace(Slice(contents, LineStartOf(contents, s), s))
     /\ AllWhitespace(Slice(contents, s + Len(startMarker),
                            LineEndOf(contents, s + Len(startMarker))))

MarkerAloneOrError ==
  (Spliced /\ ValidMarkerPair(in.contents) /\ ~StartMarkerAlone(in.contents))
    => out.r1.err = "marker must be on its own line"

----------------------------------------------------------------------------
(* The object a structural splice addresses, read off the text: string     *)
(* literals by the parity of the backslashes before a quote, depth by the  *)
(* braces outside them.                                                    *)

\* whether the quote at j closes the string literal that opens at q
Closes(text, q, j) ==
  /\ j > q
  /\ At(text, j) = QUOTE
  /\ \E k \in 0..(j - q - 1) :
       /\ k % 2 = 0
       /\ \A i \in (j - k)..(j - 1) : At(text, i) = BSLASH
       /\ (j - k - 1 = q \/ At(text, j - k - 1) # BSLASH)

StringEnd(text, q) ==
  LET ends == {j \in (q + 1)..(Len(text) - 1) : Closes(text, q, j)}
  IN IF ends = {} THEN -1 ELSE CHOOSE j \in ends : \A k \in ends : j <= k

\* reading on from position `from` (outside any string, `depth` braces open):
\* whether position pos lies inside a string literal, and the braces open before it
RECURSIVE Walk(_, _, _, _)
Walk(text, from, depth, pos) ==
  LET j == NextIn(text, from, {QUOTE, "{", "}"})
  IN IF j >= pos THEN [inString |-> FALSE, depth |-> depth]
     ELSE IF At(text, j) = QUOTE
     THEN IF StringEnd(text, j) = -1 \/ StringEnd(text, j) >= pos
          THEN [inString |-> TRUE, depth |-> depth]
          ELSE Walk(text, StringEnd(text, j) + 1, depth, pos)
     ELSE Walk(text, j + 1, IF At(text, j) = "{" THEN depth + 1 ELSE depth - 1, pos)

KeyLiteral(key) == <<QUOTE>> \o key \o <<QUOTE>>

\* a string literal equal to the key, one brace deep
KeyAt(text, key, i) ==
  /\ OccursAt(text, KeyLiteral(key), i)
  /\ ~Walk(text, 0, 0, i).inString
  /\ Walk(text, 0, 0, i).depth = 1

FirstKeyAt(text, key) ==
  LET ks == {i \in 0..(Len(text) - 1) : KeyAt(text, key, i)}
  IN IF ks = {} THEN -1 ELSE CHOOSE i \in ks : \A k \in ks : i <= k

\* the first symbol of the value of the key literal at p: past whitespace, a
\* colon and whitespace; -1 when the text has no such symbol
ValueStartOf(text, key, p) ==
  LET after == p + Len(KeyLiteral(key))
      vs == {v \in after..(Len(text) - 1) :
               /\ At(text, v) \notin Whitespace
               /\ \E c \in after..(v - 1) :
                    /\ At(text, c) = ":"
                    /\ AllWhitespace(Slice(text, after, c))
                    /\ AllWhitespace(Slice(text, c + 1, v))}
  IN IF vs = {} THEN -1 ELSE CHOOSE v \in vs : TRUE

\* the brace that closes the one at v; -1 when none does
MatchingClose(text, v) ==
  LET es == {e \in (v + 1)..(Len(text) - 1) :
               /\ At(text, e) = "}"
               /\ ~Walk(text, v, 0, e).inString
               /\ Walk(text, v, 0, e).depth = 1}
  IN IF es = {} THEN -1 ELSE CHOOSE e \in es : \A k \in es : e <= k

\* the target key's object: [found, open, close]
TargetObject(text, key) ==
  LET p == FirstKeyAt(text, key)
      v == IF p = -1 THEN -1 ELSE ValueStartOf(text, key, p)
      e == IF v = -1 \/ At(text, v) # "{" THEN -1 ELSE MatchingClose(text, v)
  IN [found |-> e # -1, key |-> p, open |-> v, close |-> e]

IsSuffix(suffix, s) ==
  Len(suffix) <= Len(s) /\ SubSeq(s, Len(s) - Len(suffix) + 1, Len(s)) = suffix

StructuralSpliced == Spliced /\ ~ValidMarkerPair(in.contents) /\ out.r1.err = ""

(* C8: structural strategy frame.  A successful structural splice keeps    *)
(* every symbol before the opening brace of the target key's object and    *)
(* every symbol after the brace that closes it, in order, and puts the     *)
(* fragment, line for line, in place of the span between them inclusive.   *)
StructuralFrame ==
  StructuralSpliced =>
    LET c == in.contents
        t == out.r1.text
        o == TargetObject(c, targetKey(in.target))
        tail == Len(c) - o.close - 1
        middle == Split(Slice(t, o.open, Len(t) - tail), <<NL>>)
        fragment == Split(FragmentJSON(in.target, cfg), <<NL>>)
    IN /\ o.found
       /\ Len(t) >= o.open + tail
       /\ Slice(t, 0, o.open) = Slice(c, 0, o.open)
       /\ SliceFrom(t, Len(t) - tail) = SliceFrom(c, o.close + 1)
       /\ Len(middle) = Len(fragment)
       /\ middle[1] = fragment[1]
       /\ \A i \in 2..Len(fragment) : IsSuffix(fragment[i], middle[i])

\* a successful structural splice of an object that holds a brace inside a
\* string literal, with text after the object
StructuralFrameWitness ==
  /\ StructuralSpliced
  /\ LET o == TargetObject(in.contents, targetKey(in.target))
     IN /\ o.found
        /\ o.close + 1 < Len(in.contents)
        /\ \E i \in (o.open + 1)..(o.close - 1) :
             At(in.contents, i) = "}" /\ Walk(in.contents, o.open, 0, i).inString


-----------------------------------------------------------------------------
(* The sentinel expansion on its own: any list of entries and any list of  *)
(* bash entries the policy document can carry, expandWithBash applied once *)
(* as buildClaudePermissions applies it to each of allow, ask and deny.    *)

MaxListLen == 2

ListEntries == {bashSentinel, <<"Read">>, <<SP, "Read">>, <<SP>>, <<"Bash(", "git", ":*)">>}

BashEntries == {<<"git">>, <<"git", SP>>, <<SP>>, <<"ls">>}

ListsOf(entries) == UNION {[1..n -> entries] : n \in 0..MaxListLen}

InitExpand ==
  /\ pc = "expand"
  /\ \E values \in ListsOf(ListEntries) :
       \E bashValues \in ListsOf(BashEntries) :
         in = [values |-> values, bashValues |-> bashValues]
  /\ out = [phase |-> "input", list |-> <<>>]
  /\ cfg = PolicyEmpty
  /\ disk = <<>>
  /\ events = <<>>
  /\ runs = 0
  /\ first = <<>>

Expand ==
  /\ pc = "expand"
  /\ out.phase = "input"
  /\ out' = [phase |-> "expanded", list |-> expandWithBash(in.values, in.bashValues)]
  /\ UNCHANGED <<pc, cfg, disk, events, runs, first, in>>

NextExpand == Expand

SpecExpand == InitExpand /\ [][NextExpand]_vars

(* C10: the sentinel token "__BASH__" never appears in the output of       *)
(* expandWithBash, for every input list and every derived-pattern list,    *)
(* the empty derived-pattern list included.                                *)
SentinelNeverInOutput ==
  out.phase = "expanded" => ~Contains(out.list, bashSentinel)

-----------------------------------------------------------------------------
(* The run: loadConfig, then the three artifact steps in the order run     *)
(* calls them.  The disk holds the two host files, the rules file and      *)
(* whether the rules file's directory exists.  Every step appends one      *)
(* record of what it found and did to events; out is what run returned.    *)

MaxRuns == 2

File(text) == [exists |-> TRUE, text |-> text]

Absent == [exists |-> FALSE, text |-> <<>>]

\* what os.WriteFile can do: write the whole text, fail before touching the
\* file, or fail after truncating it
WriteOutcomes == {"ok", "refused", "truncated"}

fileExistsAlways(f) == TRUE

fileExists(f) == f.exists

dirExists(d) == d

writeFile(f, text, outcome) ==
  IF outcome = "ok" THEN File(text)
  ELSE IF outcome = "truncated" THEN File(<<>>)
  ELSE f

\* transformed is what the step's transform returns for the text of f
updateFileIfChanged(f, transformed, readOk, outcome) ==
  IF ~fileExists(f)
  THEN [file |-> f, read |-> FALSE, updated |-> <<>>, write |-> "none", err |-> ""]
  ELSE IF ~(f.exists /\ readOk)
  THEN [file |-> f, read |-> FALSE, updated |-> <<>>, write |-> "none",
        err |-> "read file"]
  ELSE IF transformed.err # ""
  THEN [file |-> f, read |-> TRUE, updated |-> <<>>, write |-> "none",
        err |-> transformed.err]
  ELSE IF transformed.text = f.text
  THEN [file |-> f, read |-> TRUE, updated |-> transformed.text, write |-> "none",
        err |-> ""]
  ELSE [file |-> writeFile(f, transformed.text, outcome), read |-> TRUE,
        updated |-> transformed.text, write |-> outcome,
        err |-> IF outcome = "ok" THEN "" ELSE "write file"]

writeClaudePermissions(f, transformed, readOk, outcome) ==
  updateFileIfChanged(f, transformed, readOk, outcome)

writeCodexRules(d, f, content, outcome) ==
  IF ~dirExists(d)
  THEN [file |-> f, read |-> FALSE, updated |-> <<>>, write |-> "none", err |-> ""]
  ELSE [file |-> writeFile(f, content, outcome), read |-> FALSE,
        updated |-> content, write |-> outcome,
        err |-> IF outcome = "ok" THEN "" ELSE "write codex rules"]

writeOpencodePermissions(f, lines, transformed, readOk, outcome) ==
  IF lines.err # ""
  THEN [file |-> f, read |-> FALSE, updated |-> <<>>, write |-> "none",
        err |-> lines.err]
  ELSE updateFileIfChanged(f, transformed, readOk, outcome)

runNextIgnoringErrors(step, err) ==
  IF step = "load" THEN "claude"
  ELSE IF step = "claude" THEN "codex"
  ELSE IF step = "codex" THEN "opencode"
  ELSE "done"

\* where run goes after a step: out with the step's error, or on to the next
runNext(step, err) ==
  IF err # "" THEN "failed"
  ELSE IF step = "load" THEN "claude"
  ELSE IF step = "claude" THEN "codex"
  ELSE IF step = "codex" THEN "opencode"
  ELSE "done"

runOut(next, err) ==
  IF next \in {"failed", "done"} THEN [phase |-> "returned", err |-> err]
  ELSE [phase |-> "running", err |-> ""]

Event(step, existed, before, r) ==
  [step |-> step, existed |-> existed, before |-> before, read |-> r.read,
   updated |-> r.updated, write |-> r.write, err |-> r.err]

\* host files the run can meet: the marker pair on lines of its own, a start
\* marker behind other text, the markers in the wrong order, the key with an
\* object value on a line of its own and in one line, the key two braces
\* deep only, the key with a string value, an empty object
RunHosts(target) ==
  {<<"{", NL, SP, SP>> \o startMarker \o <<NL, SP, SP>> \o endMarker \o <<NL, "}">>,
   <<"x", SP>> \o startMarker \o <<NL>> \o endMarker,
   endMarker \o <<NL>> \o startMarker,
   <<"{", NL, SP, SP>> \o KeyColon(target) \o <<"{", "}", NL, "}">>,
   <<"{">> \o KeyColon(target) \o <<"{", "}", "}">>,
   <<"{", NL, SP, SP, QUOTE, "a", QUOTE, ":", SP, "{">> \o KeyColon(target)
     \o <<"{", "}", "}", NL, "}">>,
   <<"{", NL, SP, SP>> \o KeyColon(target) \o <<QUOTE, "x", QUOTE, NL, "}">>,
   <<"{", "}">>}

RunFiles(target) == {Absent} \cup {File(h) : h \in RunHosts(target)}

RunPolicies == {PolicyEmpty, PolicyGit, PolicyEndMarker}

NoRun == [events |-> <<>>, err |-> "not run"]

Init ==
  /\ pc = "idle"
  /\ cfg \in RunPolicies
  /\ \E claude \in RunFiles("claude"), opencode \in RunFiles("opencode"),
        codexDir \in BOOLEAN, codex \in {Absent, File(<<"old">>)} :
       /\ codexDir \/ ~codex.exists
       /\ disk = [claude |-> claude, codexDir |-> codexDir, codex |-> codex,
                  opencode |-> opencode]
  /\ events = <<>>
  /\ runs = 0
  /\ first = NoRun
  /\ in = <<>>
  /\ out = [phase |-> "idle", err |-> ""]

\* run up to the first artifact step: loadConfig reads and decodes the policy
\* (the resolution of the four paths before it is left out)
Start ==
  /\ pc \in {"idle", "done", "failed"}
  /\ runs < MaxRuns
  /\ \E loadErr \in {"", "read data", "parse yaml"} :
       /\ pc' = runNext("load", loadErr)
       /\ out' = runOut(runNext("load", loadErr), loadErr)
  /\ runs' = runs + 1
  /\ first' = IF runs = 1 THEN [events |-> events, err |-> out.err] ELSE first
  /\ events' = <<>>
  /\ UNCHANGED <<cfg, disk, in>>

\* (a value each step computes once is bound once, as the one element of a set)
WriteClaude ==
  /\ pc = "claude"
  /\ \E transformed \in
          {replacePermissionsBlock(disk.claude.text, buildClaudePermissions(cfg))} :
       \E readOk \in BOOLEAN, outcome \in WriteOutcomes :
         \E r \in {writeClaudePermissions(disk.claude, transformed, readOk, outcome)} :
           /\ disk' = [disk EXCEPT !.claude = r.file]
           /\ events' = Append(events,
                               Event("claude", disk.claude.exists, disk.claude.text, r))
           /\ pc' = runNext("claude", r.err)
           /\ out' = runOut(runNext("claude", r.err), r.err)
  /\ UNCHANGED <<cfg, runs, first, in>>

WriteCodex ==
  /\ pc = "codex"
  /\ \E content \in {renderCodexRules(buildCodexRules(cfg))} :
       \E outcome \in WriteOutcomes :
         \E r \in {writeCodexRules(disk.codexDir, disk.codex, content, outcome)} :
           /\ disk' = [disk EXCEPT !.codex = r.file]
           /\ events' = Append(events,
                               Event("codex", disk.codexDir, disk.codex.text, r))
           /\ pc' = runNext("codex", r.err)
           /\ out' = runOut(runNext("codex", r.err), r.err)
  /\ UNCHANGED <<cfg, runs, first, in>>

WriteOpencode ==
  /\ pc = "opencode"
  /\ \E permissionsJSON \in {opencodeJSON(cfg)} :
       \E lines \in {opencodePermissionsLinesFromJSON(permissionsJSON)} :
         \E transformed \in
              {replaceOpencodePermissions(disk.opencode.text, permissionsJSON,
                                          lines.lines)} :
           \E readOk \in BOOLEAN, outcome \in WriteOutcomes :
             \E r \in {writeOpencodePermissions(disk.opencode, lines, transformed,
                                                readOk, outcome)} :
               /\ disk' = [disk EXCEPT !.opencode = r.file]
               /\ events' = Append(events,
                                   Event("opencode", disk.opencode.exists,
                                         disk.opencode.text, r))
               /\ pc' = runNext("opencode", r.err)
               /\ out' = runOut(runNext("opencode", r.err), r.err)
  /\ UNCHANGED <<cfg, runs, first, in>>

Next == Start \/ WriteClaude \/ WriteCodex \/ WriteOpencode

Spec == Init /\ [][Next]_vars

-----------------------------------------------------------------------------
(* What the claims about the run speak of.                                 *)

StepOrder == <<"claude", "codex", "opencode">>

SplicedSteps == {"claude", "opencode"}

diskOf(step) ==
  IF step = "claude" THEN disk.claude
  ELSE IF step = "codex" THEN disk.codex
  ELSE disk.opencode

Running == pc \in {"claude", "codex", "opencode", "done", "failed"}

Returned(err) == out = [phase |-> "returned", err |-> err]

\* what the step's transform makes of the text the step read
Transformed(e) == transform(e.step, cfg, e.before)

ShouldWrite(e) ==
  /\ e.existed
  /\ e.read
  /\ Transformed(e).err = ""
  /\ Transformed(e).text # e.before

(* C3: for the two spliced artifacts, the target file is written if and    *)
(* only if it exists, the transform succeeds and the transformed text      *)
(* differs from the text read; when the transform fails or changes         *)
(* nothing, the file on disk is left as it was; and so a second run with   *)
(* the same policy, after a first run that returned no error, writes       *)
(* neither of the two files.                                               *)
WritesIffChanged ==
  Running =>
    /\ \A i \in 1..Len(events) :
         events[i].step \in SplicedSteps =>
           /\ (events[i].write # "none") <=> ShouldWrite(events[i])
           /\ (events[i].existed /\ events[i].read /\ ~ShouldWrite(events[i]))
                => diskOf(events[i].step) = File(events[i].before)
    /\ (runs = 2 /\ first.err = "") =>
         \A i \in 1..Len(events) :
           events[i].step \in SplicedSteps => events[i].write = "none"

(* C4: the steps run in the order permission-set file, rule-language file, *)
(* section-map file; a step that returns an error is the last step of the  *)
(* run, the run returns that error, and every file a step has written      *)
(* holds the text that step wrote.                                         *)
RunInOrder ==
  Running =>
    /\ Len(events) <= 3
    /\ \A i \in 1..Len(events) : events[i].step = StepOrder[i]
    /\ pc \in {"claude", "codex", "opencode"} => pc = StepOrder[Len(events) + 1]
    /\ pc = "done" => (Len(events) = 3 /\ Returned(""))
    /\ \A i \in 1..Len(events) :
         /\ events[i].err # "" =>
              (i = Len(events) /\ pc = "failed" /\ Returned(events[i].err))
         /\ events[i].write = "ok" =>
              diskOf(events[i].step) = File(events[i].updated)

\* the first step wrote its file, the second failed, the third never ran
AbortedAfterWrite ==
  /\ pc = "failed"
  /\ Len(events) = 2
  /\ events[1].write = "ok"
  /\ events[2].err # ""
  /\ disk.claude = File(events[1].updated)

(* C5: a step whose target is absent (the host file, or the directory of   *)
(* the rules file) returns no error, writes and creates nothing, and the   *)
(* run goes on to the next step.                                           *)
AbsentTargetSkipped ==
  Running =>
    \A i \in 1..Len(events) :
      ~events[i].existed =>
        /\ events[i].err = ""
        /\ events[i].write = "none"
        /\ ~diskOf(events[i].step).exists
        /\ events[i].step = "codex" => ~disk.codexDir
        /\ i = Len(events) => pc = (IF i = 3 THEN "done" ELSE StepOrder[i + 1])

\* a run in which no target existed returned without an error
AllTargetsAbsent ==
  /\ pc = "done"
  /\ Len(events) = 3
  /\ \A i \in 1..3 : ~events[i].existed
  /\ Returned("")

\* the key as a string literal one brace deep, followed by a colon and "{"
HasKeyObject(text, key) ==
  \E i \in 0..(Len(text) - 1) :
    /\ KeyAt(text, key, i)
    /\ ValueStartOf(text, key, i) # -1
    /\ At(text, ValueStartOf(text, key, i)) = "{"

NoSplicePoint(e) ==
  /\ e.step \in SplicedSteps
  /\ e.existed
  /\ e.read
  /\ ~ValidMarkerPair(e.before)
  /\ ~HasKeyObject(e.before, targetKey(e.step))

(* C6: when an existing host file holds neither a valid marker pair nor    *)
(* the target key one brace deep with an object value, the step returns an *)
(* error, the file is not written, and the run stops with that error.      *)
NoSplicePointAborts ==
  Running =>
    \A i \in 1..Len(events) :
      NoSplicePoint(events[i]) =>
        /\ events[i].err # ""
        /\ events[i].write = "none"
        /\ diskOf(events[i].step) = File(events[i].before)
        /\ i = Len(events)
        /\ pc = "failed"
        /\ Returned(events[i].err)

\* a step met a host file with no splice point
NoSplicePointWitness ==
  /\ pc = "failed"
  /\ Len(events) >= 1
  /\ NoSplicePoint(events[Len(events)])
  /\ events[Len(events)].err # ""

-----------------------------------------------------------------------------
(* What the claims about lists speak of: the elements of a list at a set   *)
(* of indices in their order, the first occurrences, the trimmed non-empty *)
(* entries.                                                                *)

SubseqAt(list, idx) ==
  [k \in 1..Cardinality(idx) |->
     list[CHOOSE i \in idx : Cardinality({j \in idx : j <= i}) = k]]

FirstOccurrences(list) ==
  SubseqAt(list, {i \in 1..Len(list) : \A j \in 1..(i - 1) : list[j] # list[i]})

Trimmed(list) == [i \in 1..Len(list) |-> TrimSpace(list[i])]

NonEmpty(list) == SubseqAt(list, {i \in 1..Len(list) : list[i] # <<>>})

RECURSIVE Flatten(_)
Flatten(lists) ==
  IF lists = <<>> THEN <<>> ELSE Head(lists) \o Flatten(Tail(lists))

\* the derived-pattern list of a list of bash entries
Derived(bashValues) ==
  LET n == NonEmpty(Trimmed(bashValues))
  IN [i \in 1..Len(n) |-> <<"Bash(">> \o n[i] \o <<":*)">>]

\* the sequence S of the claim
Substituted(values, derived) ==
  LET n == NonEmpty(Trimmed(values))
  IN IF \E i \in 1..Len(n) : n[i] = bashSentinel
     THEN Flatten([i \in 1..Len(n) |->
                     IF n[i] = bashSentinel THEN derived ELSE <<n[i]>>])
     ELSE n \o derived

Expanded == pc = "expand" /\ out.phase = "expanded"

(* C11: for a non-empty derived-pattern list D, expandWithBash(list, D)    *)
(* is the first-occurrence deduplication of S, where S is the normalized   *)
(* list with every sentinel replaced in place by the whole of D when the   *)
(* list holds a sentinel, and the normalized list followed by D otherwise. *)
ExpansionIsDedupOfSubstitution ==
  (Expanded /\ Derived(in.bashValues) # <<>>) =>
    out.list = FirstOccurrences(Substituted(in.values, Derived(in.bashValues)))

\* a sentinel was replaced and a duplicate was dropped
ExpansionWitness ==
  /\ Expanded
  /\ Derived(in.bashValues) # <<>>
  /\ \E i \in 1..Len(in.values) : in.values[i] = bashSentinel
  /\ Len(out.list) < Len(Substituted(in.values, Derived(in.bashValues)))
  /\ Len(out.list) >= 1

-----------------------------------------------------------------------------
(* The list functions on their own: any list of entries a policy can       *)
(* carry under one decision, and one of normalizeList,                     *)
(* buildCodexDecisionRules and expandOpencodePatterns applied to it.       *)

MaxEntries == 3

\* (two of the entries hold the unit separator byte inside a token)
Entries ==
  {<<"git">>, <<SP, "git", SP>>, <<"git", SP, "status">>, <<"git", SP, "diff">>,
   <<"ls", SP, SP, "status">>, <<"git", SP, "*">>, <<"ls", "?">>, <<SP>>,
   <<"a", US, "b", SP, "c", SP, "x">>, <<"a", SP, "b", US, "c", SP, "y">>}

EntryLists == UNION {[1..n -> Entries] : n \in 0..MaxEntries}

InitLists ==
  /\ pc = "lists"
  /\ \E values \in EntryLists : in = [values |-> values]
  /\ out = [phase |-> "input"]
  /\ cfg = PolicyEmpty
  /\ disk = <<>>
  /\ events = <<>>
  /\ runs = 0
  /\ first = <<>>

Normalize ==
  /\ pc = "lists"
  /\ out.phase = "input"
  /\ \E unique \in BOOLEAN :
       out' = [phase |-> "normalized", unique |-> unique,
               list |-> normalizeList(in.values, unique)]
  /\ UNCHANGED <<pc, cfg, disk, events, runs, first, in>>

Decisions == {"allow", "prompt", "forbidden"}

Group ==
  /\ pc = "lists"
  /\ out.phase = "input"
  /\ \E decision \in Decisions :
       out' = [phase |-> "grouped", decision |-> decision,
               gc |-> groupCommands(in.values),
               rules |-> buildCodexDecisionRules(decision, in.values)]
  /\ UNCHANGED <<pc, cfg, disk, events, runs, first, in>>

ExpandPatterns ==
  /\ pc = "lists"
  /\ out.phase = "input"
  /\ out' = [phase |-> "patterns", list |-> expandOpencodePatterns(in.values)]
  /\ UNCHANGED <<pc, cfg, disk, events, runs, first, in>>

NextLists == Normalize \/ Group \/ ExpandPatterns

SpecLists == InitLists /\ [][NextLists]_vars

Normalized == pc = "lists" /\ out.phase = "normalized"

(* C12: normalizeList returns the trimmed entries in input order without   *)
(* those that are empty after trimming; with unique only the first         *)
(* occurrence of each trimmed value is kept; no element of the result is   *)
(* empty or all whitespace.                                                *)
NormalizeIsTrimFilter ==
  Normalized =>
    /\ out.list = (IF out.unique THEN FirstOccurrences(NonEmpty(Trimmed(in.values)))
                   ELSE NonEmpty(Trimmed(in.values)))
    /\ \A i \in 1..Len(out.list) : TrimSpace(out.list[i]) # <<>>

\* a blank entry was dropped and a repeated value was kept once
NormalizeWitness ==
  /\ Normalized
  /\ out.unique
  /\ Len(out.list) >= 1
  /\ Len(out.list) < Len(NonEmpty(Trimmed(in.values)))
  /\ Len(NonEmpty(Trimmed(in.values))) < Len(in.values)

Grouped == pc = "lists" /\ out.phase = "grouped"

\* the commands of the input as token lists, the empty ones left out
Commands == NonEmpty([i \in 1..Len(in.values) |-> Fields(in.values[i])])

Prefix(tokens) == SubSeq(tokens, 1, Len(tokens) - 1)

Last(tokens) == tokens[Len(tokens)]

\* the commands of two tokens or more whose tokens but the last are prefix
CommandsOf(prefix) ==
  SubseqAt(Commands, {i \in 1..Len(Commands) :
                        Len(Commands[i]) >= 2 /\ Prefix(Commands[i]) = prefix})

GroupPrefixes ==
  {Prefix(Commands[i]) : i \in {j \in 1..Len(Commands) : Len(Commands[j]) >= 2}}

(* C13: within one decision, two commands of two tokens or more are in the *)
(* same group exactly when they have the same number of tokens and the     *)
(* same tokens but the last: there is one group for each such prefix, and  *)
(* its alternatives are the distinct last tokens of the commands with that *)
(* prefix, in first-seen order.                                            *)
GroupsByPrefix ==
  Grouped =>
    /\ Cardinality(DOMAIN out.gc.groups) = Cardinality(GroupPrefixes)
    /\ {[prefix |-> out.gc.groups[k].prefix, alts |-> out.gc.groups[k].alts] :
          k \in DOMAIN out.gc.groups}
         = {[prefix |-> p,
             alts |-> FirstOccurrences([i \in 1..Len(CommandsOf(p)) |->
                                          Last(CommandsOf(p)[i])])] :
              p \in GroupPrefixes}

\* the grouping key of a command: its token for one token, its number of
\* tokens and its tokens but the last for more
KeyOf(tokens) ==
  [count |-> Len(tokens),
   prefix |-> IF Len(tokens) = 1 THEN tokens ELSE Prefix(tokens)]

KeysInOrder == FirstOccurrences([i \in 1..Len(Commands) |-> KeyOf(Commands[i])])

FirstWithKey(key) ==
  Commands[CHOOSE i \in 1..Len(Commands) :
             /\ KeyOf(Commands[i]) = key
             /\ \A j \in 1..(i - 1) : KeyOf(Commands[j]) # key]

(* C14: buildCodexDecisionRules emits exactly one rule for each distinct   *)
(* grouping key (the token of a one-token command, the token count and the *)
(* prefix of a longer one), in the order in which the keys first occur in  *)
(* the input, and no rule for an empty or whitespace-only command.         *)
OneRulePerKeyInOrder ==
  Grouped =>
    /\ Len(out.rules) = Len(KeysInOrder)
    /\ \A i \in 1..Len(KeysInOrder) :
         i <= Len(out.rules) =>
           /\ out.rules[i].Decision = out.decision
           /\ out.rules[i].Match = Join(FirstWithKey(KeysInOrder[i]), <<SP>>)

PatternsExpanded == pc = "lists" /\ out.phase = "patterns"

\* the trimmed non-empty patterns of the input, each once, in input order
Patterns == FirstOccurrences(NonEmpty(Trimmed(in.values)))

Wildcard(pattern) == \E i \in 1..Len(pattern) : pattern[i] = "*" \/ pattern[i] = "?"

VariantOf(pattern) == pattern \o <<SP, "*">>

InList(list, value) == \E i \in 1..Len(list) : list[i] = value

PlaceIn(list, value) == CHOOSE i \in 1..Len(list) : list[i] = value

NoDuplicates(list) ==
  \A i, j \in 1..Len(list) : list[i] = list[j] => i = j

\* every pattern of the input is in the output
EveryPatternOut == \A i \in 1..Len(Patterns) : InList(out.list, Patterns[i])

\* a pattern without wildcard is directly followed by its variant, unless
\* the variant is in the output before it
VariantFollows ==
  \A k \in 1..Len(out.list) :
    ~Wildcard(out.list[k]) =>
      \/ k < Len(out.list) /\ out.list[k + 1] = VariantOf(out.list[k])
      \/ \E j \in 1..(k - 1) : out.list[j] = VariantOf(out.list[k])

\* the output holds nothing but patterns of the input and the variants of
\* its patterns without wildcard
NoOtherVariant ==
  \A k \in 1..Len(out.list) :
    \/ InList(Patterns, out.list[k])
    \/ \E i \in 1..Len(Patterns) :
         ~Wildcard(Patterns[i]) /\ out.list[k] = VariantOf(Patterns[i])

\* the variant of an earlier pattern of the input
EarlierVariant(i) ==
  \E j \in 1..(i - 1) : ~Wildcard(Patterns[j]) /\ Patterns[i] = VariantOf(Patterns[j])

(* C15 as stated: expandOpencodePatterns outputs, in input order and       *)
(* without duplicates, every trimmed non-empty pattern; a pattern without  *)
(* '*' and '?' is directly followed by "<pattern> *" unless that string is *)
(* already in the output; a pattern with '*' or '?' gets no variant.       *)
PatternsInInputOrder ==
  PatternsExpanded =>
    /\ NoDuplicates(out.list)
    /\ EveryPatternOut
    /\ \A i, j \in 1..Len(Patterns) :
         (i < j /\ EveryPatternOut) =>
           PlaceIn(out.list, Patterns[i]) < PlaceIn(out.list, Patterns[j])
    /\ VariantFollows
    /\ NoOtherVariant

(* C15 as amended: the same, the patterns being in input order except that *)
(* a pattern equal to the variant of an earlier pattern stays at the place *)
(* of that variant.                                                        *)
PatternsInFirstPlace ==
  PatternsExpanded =>
    /\ NoDuplicates(out.list)
    /\ EveryPatternOut
    /\ \A i, j \in 1..Len(Patterns) :
         (i < j /\ EveryPatternOut /\ ~EarlierVariant(i) /\ ~EarlierVariant(j)) =>
           PlaceIn(out.list, Patterns[i]) < PlaceIn(out.list, Patterns[j])
    /\ \A i \in 1..Len(Patterns) :
         (EveryPatternOut /\ EarlierVariant(i)) =>
           \E j \in 1..(i - 1) :
             /\ Patterns[i] = VariantOf(Patterns[j])
             /\ PlaceIn(out.list, Patterns[j]) < PlaceIn(out.list, Patterns[i])
             /\ \A k \in (j + 1)..(i - 1) :
                  ~EarlierVariant(k) =>
                    PlaceIn(out.list, Patterns[i]) < PlaceIn(out.list, Patterns[k])
    /\ VariantFollows
    /\ NoOtherVariant

\* a pattern, another one, then the variant of the first: the variant stays
\* next to its pattern
PatternsWitness ==
  /\ PatternsExpanded
  /\ Len(Patterns) = 3
  /\ ~Wildcard(Patterns[1])
  /\ Patterns[3] = VariantOf(Patterns[1])
  /\ Len(out.list) >= 3
  /\ out.list[2] = Patterns[3]
  /\ out.list[3] = Patterns[2]

----------------------------------------------------------------------------
(* The section map and the rule list of a policy.  The policy is decoded  *)
(* from declarations: the three tiers of the bash domain, and the other   *)
(* sections in the order in which the file declares them, each a scalar   *)
(* or a rule section.                                                      *)

TierLists ==
  {<<>>, << <<"git", SP, "status">> >>,
   << <<"ls">>, <<"git", SP, "status">>, <<"git", SP, "*">> >>}

OtherNames == {NameOrder[i] : i \in 1..Len(NameOrder)} \ {"bash"}

Declarations ==
  {d \in UNION {[1..n -> OtherNames] : n \in 0..Cardinality(OtherNames)} :
     \A i, j \in 1..Len(d) : d[i] = d[j] => i = j}

TierSection(default, allow, ask, deny) ==
  [Default |-> default, Allow |-> allow, Ask |-> ask, Deny |-> deny,
   Scalar |-> <<>>, IsScalar |-> FALSE]

\* the default decision a section declares
DefaultOf(name) ==
  IF name = "apply" THEN <<"ask">>
  ELSE IF name = "edit" THEN <<SP, "deny", SP>>
  ELSE <<SP>>

\* the config decoded from the declarations
Decoded(d) ==
  [Bash |-> [Allow |-> d.allow, Ask |-> d.ask, Deny |-> d.deny],
   Claude |-> [Allow |-> <<>>, Ask |-> <<>>, Deny |-> <<>>,
               AdditionalDirectories |-> <<>>],
   Opencode |->
     [Bash |-> IF d.bashScalar THEN ScalarSection(<<"ask">>)
               ELSE TierSection(<<>>, d.deny, <<>>, d.allow),
      Others |-> [n \in {d.decls[i] : i \in 1..Len(d.decls)} |->
                    IF n \in d.scalar THEN ScalarSection(<<SP, "deny">>)
                    ELSE TierSection(DefaultOf(n), d.allow, d.ask, d.deny)]]]

InitSections ==
  /\ pc = "sections"
  /\ \E decls \in Declarations, allow, ask, deny \in TierLists, bashScalar \in BOOLEAN :
       \E scalar \in SUBSET {decls[i] : i \in 1..Len(decls)} :
         /\ in = [decls |-> decls, scalar |-> scalar, allow |-> allow, ask |-> ask,
                  deny |-> deny, bashScalar |-> bashScalar]
         /\ cfg = Decoded(in)
  /\ out = [phase |-> "input"]
  /\ disk = <<>>
  /\ events = <<>>
  /\ runs = 0
  /\ first = <<>>

BuildSections ==
  /\ pc = "sections"
  /\ out.phase = "input"
  /\ out' = [phase |-> "sections", sections |-> buildOpencodeSections(cfg)]
  /\ UNCHANGED <<pc, cfg, disk, events, runs, first, in>>

BuildCodex ==
  /\ pc = "sections"
  /\ out.phase = "input"
  /\ out' = [phase |-> "codex", rules |-> buildCodexRules(cfg)]
  /\ UNCHANGED <<pc, cfg, disk, events, runs, first, in>>

NextSections == BuildSections \/ BuildCodex

SpecSections == InitSections /\ [][NextSections]_vars

SectionsBuilt == pc = "sections" /\ out.phase = "sections"

SectionNamesOut == [i \in 1..Len(out.sections) |-> out.sections[i].Name]

\* name a is before name b in the order of strings
NameBefore(a, b) ==
  \E i, j \in 1..Len(NameOrder) : i < j /\ NameOrder[i] = a /\ NameOrder[j] = b

(* C16: the section list has the section "bash" first and once, then every *)
(* other declared section once, in ascending order of name, whatever the   *)
(* order of the declarations.                                              *)
BashFirstThenAscending ==
  SectionsBuilt =>
    /\ Len(out.sections) = 1 + Len(in.decls)
    /\ SectionNamesOut[1] = "bash"
    /\ \A i \in 2..Len(out.sections) : SectionNamesOut[i] # "bash"
    /\ \A k \in 1..Len(in.decls) :
         Cardinality({i \in 2..Len(out.sections) : SectionNamesOut[i] = in.decls[k]}) = 1
    /\ \A i, j \in 2..Len(out.sections) :
         i < j => NameBefore(SectionNamesOut[i], SectionNamesOut[j])

\* three sections declared in descending order of name
SectionsWitness ==
  /\ SectionsBuilt
  /\ Len(in.decls) = 3
  /\ NameBefore(in.decls[3], in.decls[2])
  /\ NameBefore(in.decls[2], in.decls[1])
  /\ Len(out.sections) = 4
  /\ SectionNamesOut[2] = in.decls[3]

CodexBuilt == pc = "sections" /\ out.phase = "codex"

Tiers == <<"allow", "ask", "deny">>

CodexDecision(tier) ==
  IF tier = "allow" THEN "allow" ELSE IF tier = "ask" THEN "prompt" ELSE "forbidden"

\* the lists of a section or of the bash domain, every tier but one emptied
OnlyTierOf(lists, tier) ==
  [lists EXCEPT !.Allow = IF tier = "allow" THEN @ ELSE <<>>,
                !.Ask = IF tier = "ask" THEN @ ELSE <<>>,
                !.Deny = IF tier = "deny" THEN @ ELSE <<>>]

\* the config with every tier but one emptied, in every section
OnlyTier(c, tier) ==
  [c EXCEPT !.Bash = OnlyTierOf(@, tier),
            !.Opencode.Bash = OnlyTierOf(@, tier),
            !.Opencode.Others = [n \in DOMAIN @ |-> OnlyTierOf(@[n], tier)]]

\* the rules of a list that carry the decision
OfDecision(rules, decision) ==
  SubseqAt(rules, {i \in 1..Len(rules) : rules[i].Decision = decision})

\* the decisions of a rule list are in the order of the list of decisions
InDecisionOrder(rules, decisions) ==
  \A i, j \in 1..Len(rules) :
    i < j =>
      \E a, b \in 1..Len(decisions) :
        a <= b /\ rules[i].Decision = decisions[a] /\ rules[j].Decision = decisions[b]

\* the rules of a section after the rule of its default decision
TierRulesOf(section) == SubSeq(section.Rules, 2, Len(section.Rules))

SectionOf(sections, name) ==
  sections[CHOOSE i \in 1..Len(sections) : sections[i].Name = name]

\* the rule list of the codex target has, for each tier, the rules that the
\* tier gives when the other two are empty, and the tiers come in order
CodexTiersIndependent ==
  CodexBuilt =>
    /\ InDecisionOrder(out.rules, <<"allow", "prompt", "forbidden">>)
    /\ \A t \in 1..3 :
         OfDecision(out.rules, CodexDecision(Tiers[t]))
           = buildCodexRules(OnlyTier(cfg, Tiers[t]))

\* the same for the rule list of every section that is not a scalar
SectionTiersIndependent ==
  SectionsBuilt =>
    \A s \in 1..Len(out.sections) :
      ~out.sections[s].IsScalar =>
        /\ InDecisionOrder(TierRulesOf(out.sections[s]),
                           << <<"allow">>, <<"ask">>, <<"deny">> >>)
        /\ \A t \in 1..3 :
             OfDecision(TierRulesOf(out.sections[s]), <<Tiers[t]>>)
               = TierRulesOf(SectionOf(buildOpencodeSections(OnlyTier(cfg, Tiers[t])),
                                       out.sections[s].Name))
        /\ s > 1 =>
             \A t \in 1..3 :
               LET list == IF t = 1 THEN in.allow ELSE IF t = 2 THEN in.ask ELSE in.deny
               IN \A k \in 1..Len(list) :
                    TrimSpace(list[k]) # <<>> =>
                      \E i \in 2..Len(out.sections[s].Rules) :
                        /\ out.sections[s].Rules[i].Decision = <<Tiers[t]>>
                        /\ out.sections[s].Rules[i].Pattern = TrimSpace(list[k])

(* C17: the tiers are processed independently, with no de-duplication      *)
(* across tiers: a command or pattern under two decisions gets a rule      *)
(* under each, in the order allow, ask, deny, in the rule list of the      *)
(* codex target and in the rule list of a section.                         *)
TiersIndependent == CodexTiersIndependent /\ SectionTiersIndependent

\* the same command under allow and deny, with a rule under each
TiersWitness ==
  /\ CodexBuilt
  /\ in.allow = << <<"git", SP, "status">> >>
  /\ in.ask = <<>>
  /\ in.deny = << <<"git", SP, "status">> >>
  /\ Len(out.rules) = 2
  /\ out.rules[1].Decision = "allow"
  /\ out.rules[2].Decision = "forbidden"
  /\ out.rules[1].Match = out.rules[2].Match

----------------------------------------------------------------------------
(* Markers in the wrong order, the key finder on well-formed objects, and  *)
(* the indentation of the structural splice.                               *)

\* both markers occur, the first start marker not before the first end marker
MarkersOutOfOrder(contents) ==
  /\ FirstAt(contents, startMarker) # -1
  /\ FirstAt(contents, endMarker) # -1
  /\ FirstAt(contents, startMarker) >= FirstAt(contents, endMarker)

\* the errors of the structural strategy
StructuralErrors ==
  {"key not found", "key missing colon", "missing value", "value must be object",
   "unterminated string", "unterminated", "expected start"}

(* C18 as stated: when both markers occur in the host text and the start   *)
(* marker is not strictly before the end marker, the splice fails and      *)
(* gives no output text.                                                   *)
MarkersOutOfOrderFail ==
  (Spliced /\ MarkersOutOfOrder(in.contents)) =>
    out.r1.err # "" /\ out.r1.text = <<>>

(* C18 as amended: when both markers occur and the start marker is not     *)
(* strictly before the end marker, the marker strategy is not used and the *)
(* order of the markers is no error: the splice is the structural one, it  *)
(* either replaces the object of the target key, keeping the text before   *)
(* and after it, or fails with an error of the structural strategy.        *)
MarkersOutOfOrderStructural ==
  (Spliced /\ MarkersOutOfOrder(in.contents)) =>
    LET c == in.contents
        t == out.r1.text
        o == TargetObject(c, targetKey(in.target))
        tail == Len(c) - o.close - 1
    IN \/ /\ out.r1.err \in StructuralErrors
          /\ t = <<>>
       \/ /\ out.r1.err = ""
          /\ o.found
          /\ Len(t) >= o.open + tail
          /\ Slice(t, 0, o.open) = Slice(c, 0, o.open)
          /\ SliceFrom(t, Len(t) - tail) = SliceFrom(c, o.close + 1)

\* the end marker before the start marker inside the key's object, and the
\* splice succeeded
MarkersOutOfOrderWitness ==
  /\ Spliced
  /\ in.target = "claude"
  /\ MarkersOutOfOrder(in.contents)
  /\ out.r1.err = ""
  /\ out.r1.text # in.contents

\* Well-formed JSON objects: an opening brace, at most MaxMembers members
\* separated by a comma and a space, a closing brace.  One member is the
\* target key with an object as its value; the others have other names.

MaxMembers == 3

StringLiteral(token) == <<QUOTE>> \o token \o <<QUOTE>>

Member(name, value) == StringLiteral(<<name>>) \o <<":", SP>> \o value

\* the values of the target key: an empty object, an object holding a brace
\* in a string, an object holding an object
KeyValues == {<<"{", "}">>, <<"{">> \o Member("x", BraceString) \o <<"}">>,
              <<"{">> \o Member("y", <<"{", "}">>) \o <<"}">>}

\* the other members: the key's text as a string value, as an element of an
\* array, as a key one object deeper; a brace in a string; a number
OtherMembers(key) ==
  {Member("a", StringLiteral(key)),
   Member("b", <<"[">> \o StringLiteral(key) \o <<"]">>),
   Member("c", <<"{">> \o StringLiteral(key) \o <<":", SP, "{", "}", "}">>),
   Member("d", BraceString),
   Member("e", <<"1">>)}

KeyMembers(key) == {StringLiteral(key) \o <<":", SP>> \o v : v \in KeyValues}

\* the lists of distinct members that hold the key's member once
MemberLists(key) ==
  {ms \in UNION {[1..n -> OtherMembers(key) \cup KeyMembers(key)] : n \in 1..MaxMembers} :
     /\ \A i, j \in 1..Len(ms) : ms[i] = ms[j] => i = j
     /\ Cardinality({i \in 1..Len(ms) : ms[i] \in KeyMembers(key)}) = 1}

ObjectText(ms) == <<"{">> \o Join(ms, <<",", SP>>) \o <<"}">>

RECURSIVE LengthBefore(_, _)
LengthBefore(ms, k) ==
  IF k = 1 THEN 1 ELSE LengthBefore(ms, k - 1) + Len(ms[k - 1]) + 2

InitScan ==
  /\ pc = "scan"
  /\ \E target \in Targets :
       \E ms \in MemberLists(targetKey(target)) :
         \E k \in {i \in 1..Len(ms) : ms[i] \in KeyMembers(targetKey(target))} :
           in = [target |-> target, contents |-> ObjectText(ms), members |-> ms,
                 keyPos |-> LengthBefore(ms, k),
                 valueStart |-> LengthBefore(ms, k) + Len(targetKey(target)) + 4,
                 valueEnd |-> LengthBefore(ms, k) + Len(ms[k]) - 1]
  /\ out = [phase |-> "input"]
  /\ cfg = PolicyEmpty
  /\ disk = <<>>
  /\ events = <<>>
  /\ runs = 0
  /\ first = <<>>

Scan ==
  /\ pc = "scan"
  /\ out.phase = "input"
  /\ out' = [phase |-> "scanned",
             object |-> findObjectForKey(in.contents, targetKey(in.target))]
  /\ UNCHANGED <<pc, cfg, disk, events, runs, first, in>>

NextScan == Scan

SpecScan == InitScan /\ [][NextScan]_vars

Scanned == pc = "scan" /\ out.phase = "scanned"

(* C19: the key finder fails with a missing colon or a missing value on    *)
(* malformed input only: for every well-formed JSON object that holds the  *)
(* key one brace deep with an object as its value, findObjectForKey        *)
(* succeeds and returns the position of that key and the first and last    *)
(* position of its object, also when a string equal to the key comes       *)
(* earlier as a value or as an element of an array.                        *)
KeyObjectFound ==
  Scanned =>
    /\ out.object.err = ""
    /\ out.object.keyPos = in.keyPos
    /\ out.object.valueStart = in.valueStart
    /\ out.object.valueEnd = in.valueEnd

(* C20: in the structural strategy, what is put before each line of the    *)
(* fragment after the first is whitespace only, the indentation of the     *)
(* key's line, for every host text in which the key is found, also when    *)
(* the key is not the first thing on its line.                             *)
StructuralIndentIsWhitespace ==
  StructuralSpliced =>
    LET c == in.contents
        t == out.r1.text
        o == TargetObject(c, targetKey(in.target))
        tail == Len(c) - o.close - 1
        middle == Split(Slice(t, o.open, Len(t) - tail), <<NL>>)
        fragment == Split(FragmentJSON(in.target, cfg), <<NL>>)
    IN /\ o.found
       /\ Len(middle) = Len(fragment)
       /\ \A i \in 2..Len(fragment) :
            /\ IsSuffix(fragment[i], middle[i])
            /\ AllWhitespace(SubSeq(middle[i], 1, Len(middle[i]) - Len(fragment[i])))

----------------------------------------------------------------------------
(* The delimiter matcher on its own: any text of at most MaxScanLen        *)
(* symbols, read from any of its opening braces.                           *)

MaxScanLen == 6

ScanSymbols == {"{", "}", QUOTE, BSLASH, "x"}

ScanTexts == UNION {[1..n -> ScanSymbols] : n \in 1..MaxScanLen}

InitMatch ==
  /\ pc = "match"
  /\ \E contents \in ScanTexts :
       \E start \in {i \in 0..(Len(contents) - 1) : At(contents, i) = "{"} :
         in = [contents |-> contents, start |-> start]
  /\ out = [phase |-> "input"]
  /\ cfg = PolicyEmpty
  /\ disk = <<>>
  /\ events = <<>>
  /\ runs = 0
  /\ first = <<>>

Match ==
  /\ pc = "match"
  /\ out.phase = "input"
  /\ out' = [phase |-> "matched", r |-> findMatchingBrace(in.contents, in.start)]
  /\ UNCHANGED <<pc, cfg, disk, events, runs, first, in>>

NextMatch == Match

SpecMatch == InitMatch /\ [][NextMatch]_vars

Matched == pc = "match" /\ out.phase = "matched"

\* reading the text symbol by symbol from start: before the symbol at i,
\* whether a string literal is open, whether the symbol is escaped, and how
\* many braces outside string literals are open
RECURSIVE Reading(_, _, _)
Reading(text, start, i) ==
  IF i <= start THEN [inString |-> FALSE, escaped |-> FALSE, depth |-> 0]
  ELSE LET b == Reading(text, start, i - 1)
           c == At(text, i - 1)
       IN IF b.inString
          THEN IF b.escaped THEN [b EXCEPT !.escaped = FALSE]
               ELSE IF c = BSLASH THEN [b EXCEPT !.escaped = TRUE]
               ELSE IF c = QUOTE THEN [b EXCEPT !.inString = FALSE]
               ELSE b
          ELSE IF c = QUOTE THEN [b EXCEPT !.inString = TRUE]
          ELSE IF c = "{" THEN [b EXCEPT !.depth = @ + 1]
          ELSE IF c = "}" THEN [b EXCEPT !.depth = @ - 1]
          ELSE b

\* the closing braces outside string literals at which the depth is zero again
ClosesOf(text, start) ==
  {e \in (start + 1)..(Len(text) - 1) :
     /\ At(text, e) = "}"
     /\ ~Reading(text, start, e).inString
     /\ Reading(text, start, e + 1).depth = 0}

FirstClose(text, start) ==
  CHOOSE e \in ClosesOf(text, start) : \A k \in ClosesOf(text, start) : e <= k

(* C21: the delimiter matcher, started at an opening brace, returns the    *)
(* position of the closing brace at which the depth of the braces outside  *)
(* string literals is zero again; braces and escaped quotes in a string    *)
(* literal change neither the depth nor the end of the string; with no     *)
(* such closing brace it fails as unterminated, with an unclosed string    *)
(* literal it fails as an unterminated string.                             *)
MatchesOutsideStrings ==
  Matched =>
    IF ClosesOf(in.contents, in.start) # {}
    THEN out.r.err = "" /\ out.r.end = FirstClose(in.contents, in.start)
    ELSE IF Reading(in.contents, in.start, Len(in.contents)).inString
    THEN out.r.err = "unterminated string"
    ELSE out.r.err = "unterminated"

\* a match past a string literal that holds an escaped quote
MatchWitness ==
  /\ Matched
  /\ out.r.err = ""
  /\ \E q \in (in.start + 1)..(out.r.end - 1) :
       /\ At(in.contents, q) = QUOTE
       /\ Reading(in.contents, in.start, q).inString
       /\ Reading(in.contents, in.start, q).escaped
       /\ Reading(in.contents, in.start, q + 1).inString

----------------------------------------------------------------------------
(* The key finder on its own: any text of at most MaxKeyChunks chunks, a   *)
(* chunk being a brace, a colon, a quote or the key as a string literal.   *)

MaxKeyChunks == 6

ScanKey == <<"permissions">>

KeyChunks == {<<"{">>, <<"}">>, <<":">>, <<QUOTE>>, StringLiteral(ScanKey)}

KeyTexts == {Concat(cs) : cs \in UNION {[1..n -> KeyChunks] : n \in 0..MaxKeyChunks}}

InitFind ==
  /\ pc = "find"
  /\ \E contents \in KeyTexts : in = [contents |-> contents]
  /\ out = [phase |-> "input"]
  /\ cfg = PolicyEmpty
  /\ disk = <<>>
  /\ events = <<>>
  /\ runs = 0
  /\ first = <<>>

FindKey ==
  /\ pc = "find"
  /\ out.phase = "input"
  /\ out' = [phase |-> "found",
             k |-> findKeyInRange(in.contents, 0, Len(in.contents) - 1, ScanKey)]
  /\ UNCHANGED <<pc, cfg, disk, events, runs, first, in>>

NextFind == FindKey

SpecFind == InitFind /\ [][NextFind]_vars

KeySought == pc = "find" /\ out.phase = "found"

\* a string literal equal to the key begins at position i
KeyLiteralAt(text, i) ==
  /\ OccursAt(text, StringLiteral(ScanKey), i)
  /\ ~Reading(text, 0, i).inString

KeyDepths(text) ==
  {Reading(text, 0, i).depth : i \in {j \in 0..(Len(text) - 1) : KeyLiteralAt(text, j)}}

\* what the key finder returns is a string literal equal to the key at
\* depth one
ReturnsDepthOne ==
  (KeySought /\ out.k.err = "") =>
    /\ KeyLiteralAt(in.contents, out.k.keyPos)
    /\ Reading(in.contents, 0, out.k.keyPos).depth = 1

(* C22 as stated: the key finder returns nothing but a string literal      *)
(* equal to the key at depth one; with the key at depth zero or at depth   *)
(* two or more only, the result is that the key is not found.              *)
KeyOnlyAtDepthOne ==
  /\ ReturnsDepthOne
  /\ (KeySought /\ KeyDepths(in.contents) # {} /\ 1 \notin KeyDepths(in.contents)) =>
       out.k.err = "key not found"

(* C22 as amended: the same, except that with the key at depth zero or at  *)
(* depth two or more only the result is that the key is not found or, when *)
(* the text holds a string literal that is not closed, that a string is    *)
(* unterminated.                                                           *)
KeyOnlyAtDepthOneOrUnterminated ==
  /\ ReturnsDepthOne
  /\ (KeySought /\ KeyDepths(in.contents) # {} /\ 1 \notin KeyDepths(in.contents)) =>
       IF Reading(in.contents, 0, Len(in.contents)).inString
       THEN out.k.err = "unterminated string"
       ELSE out.k.err = "key not found"

\* the key at depth zero, then at depth one: the second is returned
KeyDepthWitness ==
  /\ KeySought
  /\ out.k.err = ""
  /\ KeyLiteralAt(in.contents, 0)
  /\ out.k.keyPos > 0

\* the key at depth two only: not found
KeyTooDeep ==
  /\ KeySought
  /\ KeyDepths(in.contents) = {2}
  /\ out.k.err = "key not found"

----------------------------------------------------------------------------
(* The rules of one decision: alternatives and match text.                 *)

(* C23: no rule of buildCodexDecisionRules has exactly one alternative: a  *)
(* group with one last token becomes a rule without alternatives whose     *)
(* prefix is the group's prefix followed by that token, and a rule with    *)
(* alternatives has two or more, all distinct.                             *)
NoSingleAlternative ==
  Grouped =>
    /\ \A i \in 1..Len(out.rules) :
         /\ Len(out.rules[i].PatternAlts) # 1
         /\ NoDuplicates(out.rules[i].PatternAlts)
    /\ \A k \in DOMAIN out.gc.groups :
         Len(out.gc.groups[k].alts) = 1 =>
           \E i \in 1..Len(out.rules) :
             /\ out.rules[i].PatternAlts = <<>>
             /\ out.rules[i].PatternPrefix
                  = out.gc.groups[k].prefix \o out.gc.groups[k].alts
    \* and, read off the commands, for a prefix that has its key to itself
    /\ \A p \in GroupPrefixes :
         (\A q \in GroupPrefixes : q # p => Join(q, <<US>>) # Join(p, <<US>>)) =>
           LET lasts == {Last(CommandsOf(p)[i]) : i \in 1..Len(CommandsOf(p))}
           IN Cardinality(lasts) = 1 =>
                \E i \in 1..Len(out.rules) :
                  /\ out.rules[i].PatternAlts = <<>>
                  /\ out.rules[i].PatternPrefix = CommandsOf(p)[1]

\* a collapsed group next to a group with two alternatives
SingleAlternativeWitness ==
  /\ Grouped
  /\ \E i, j \in 1..Len(out.rules) :
       /\ out.rules[i].PatternAlts = <<>>
       /\ Len(out.rules[i].PatternPrefix) = 2
       /\ Len(out.rules[j].PatternAlts) = 2

(* C24: the match text of a rule with two alternatives or more is its      *)
(* prefix followed by the first alternative only, joined by single spaces; *)
(* the match text of a rule without alternatives is all its tokens joined  *)
(* by single spaces.                                                       *)
MatchIsFirstAlternative ==
  Grouped =>
    \A i \in 1..Len(out.rules) :
      IF Len(out.rules[i].PatternAlts) >= 2
      THEN out.rules[i].Match
             = Join(Append(out.rules[i].PatternPrefix, out.rules[i].PatternAlts[1]),
                    <<SP>>)
      ELSE out.rules[i].Match = Join(out.rules[i].PatternPrefix, <<SP>>)

\* a rule with two alternatives, made from commands of which the first held
\* two spaces between its tokens
MatchWitnessFirst ==
  /\ Grouped
  /\ Len(in.values) = 3
  /\ in.values[1] = <<"ls", SP, SP, "status">>
  /\ Len(out.rules) >= 2
  /\ \E i \in 1..Len(out.rules) :
       /\ Len(out.rules[i].PatternAlts) = 2
       /\ out.rules[i].Match = <<"git", SP>> \o out.rules[i].PatternAlts[1]
  /\ out.rules[1].Match = <<"ls", SP, "status">>

----------------------------------------------------------------------------
(* The rule list of a section: its first rule and its patterns.            *)

\* the default decision declared for the section of the name
DeclaredDefault(name) ==
  IF name = "bash" THEN cfg.Opencode.Bash.Default ELSE cfg.Opencode.Others[name].Default

(* C25: every section that is a rule list (bash when not a scalar, and any *)
(* other section that is not a scalar) has as its first rule the pattern   *)
(* "*" with the trimmed default decision of the section, "allow" when the  *)
(* default is blank, also when its three lists are empty.                  *)
FirstRuleIsDefault ==
  SectionsBuilt =>
    \A s \in 1..Len(out.sections) :
      ~out.sections[s].IsScalar =>
        /\ Len(out.sections[s].Rules) >= 1
        /\ out.sections[s].Rules[1].Pattern = <<"*">>
        /\ out.sections[s].Rules[1].Decision
             = (IF TrimSpace(DeclaredDefault(out.sections[s].Name)) = <<>>
                THEN <<"allow">>
                ELSE TrimSpace(DeclaredDefault(out.sections[s].Name)))

\* all lists empty: bash and a section with a blank default have the rule
\* of "allow" alone, a section with a default in spaces has it trimmed
FirstRuleWitness ==
  /\ SectionsBuilt
  /\ in.allow = <<>> /\ in.ask = <<>> /\ in.deny = <<>>
  /\ Len(out.sections) = 4
  /\ \A s \in 1..4 : ~out.sections[s].IsScalar /\ Len(out.sections[s].Rules) = 1
  /\ out.sections[1].Rules[1].Decision = <<"allow">>
  /\ out.sections[3].Rules[1].Decision = <<"deny">>
  /\ out.sections[4].Rules[1].Decision = <<"allow">>

\* the patterns of the rules of a section that carry the decision of a tier
PatternsOfTier(section, tier) ==
  LET rules == OfDecision(TierRulesOf(section), <<tier>>)
  IN [i \in 1..Len(rules) |-> rules[i].Pattern]

\* the pattern expander's output, read off its input: every pattern, behind
\* it its variant if it has no wildcard, each entry at its first place
ExpanderOutput(list) ==
  LET n == NonEmpty(Trimmed(list))
  IN FirstOccurrences(Flatten([i \in 1..Len(n) |->
                                 IF Wildcard(n[i]) THEN <<n[i]>>
                                 ELSE <<n[i], VariantOf(n[i])>>]))

TierOf(lists, tier) ==
  IF tier = "allow" THEN lists.Allow ELSE IF tier = "ask" THEN lists.Ask ELSE lists.Deny

(* C26: wildcard expansion is for the bash section only: its patterns of a *)
(* tier are the pattern expander's output for the bash-domain list         *)
(* followed by the section's own list of that tier; the patterns of any    *)
(* other section are its list trimmed and de-duplicated in first-seen      *)
(* order, with no derived "<pattern> *" entry.                             *)
ExpansionForBashOnly ==
  SectionsBuilt =>
    \A s \in 1..Len(out.sections) :
      ~out.sections[s].IsScalar =>
        \A t \in 1..3 :
          PatternsOfTier(out.sections[s], Tiers[t])
            = (IF out.sections[s].Name = "bash"
               THEN ExpanderOutput(TierOf(cfg.Bash, Tiers[t])
                                     \o TierOf(cfg.Opencode.Bash, Tiers[t]))
               ELSE FirstOccurrences(NonEmpty(Trimmed(
                      TierOf(cfg.Opencode.Others[out.sections[s].Name], Tiers[t])))))

\* the same list in bash and in another section: variants in bash only
ExpansionWitnessBash ==
  /\ SectionsBuilt
  /\ Len(out.sections) >= 2
  /\ ~out.sections[1].IsScalar
  /\ ~out.sections[2].IsScalar
  /\ in.allow = << <<"git", SP, "status">> >>
  /\ in.deny = <<>>
  /\ in.ask = <<>>
  /\ PatternsOfTier(out.sections[1], "allow")
       = << <<"git", SP, "status">>, <<"git", SP, "status", SP, "*">> >>
  /\ PatternsOfTier(out.sections[2], "allow") = << <<"git", SP, "status">> >>

=============================================================================
